---------------------------- MODULE Spec2Model ----------------------------
(***************************************************************************)
(* RouteView: the REST handlers of src/app/main.py over the tables of      *)
(* src/app/models.py, guarded by the dependencies of src/app/auth.py.      *)
(*                                                                         *)
(* Each table is a variable.  A handler is one action (its queries, its    *)
(* early returns, its writes and its commit).  The handlers whose          *)
(* check-then-write pattern matters under concurrent requests (register,   *)
(* assign_route, batch_assign_routes) are also given as two steps, the     *)
(* queries (..._begin) and the writes with the commit (..._commit), with   *)
(* the request in flight between the two kept in reqs.                     *)
(*                                                                         *)
(* The clock counts periods of ACCESS_TOKEN_EXPIRE_HOURS, the lifetime of a *)
(* token (24 * 7 hours, one week).  A string that the code parses is kept  *)
(* as a string and parsed by an operator (int, strptime, json.loads).      *)
(***************************************************************************)
EXTENDS Integers, Sequences, FiniteSets, Bags, TLC

VARIABLES
    users,          \* table users: row id |-> row (rows are never deleted)
    tokens,         \* the access tokens issued so far
    now,            \* wall clock, in weeks
    invites,        \* table invite_codes: set of rows
    nextInvite,     \* next id of invite_codes
    registered,     \* history: the (user, code) of every register that returned 200
    clients,        \* table clients: set of rows
    nextClient,     \* next id of clients
    visit_logs,     \* table visit_logs: set of rows
    nextLog,        \* next id of visit_logs
    routes,         \* table routes: set of rows
    nextRoute,      \* next id of routes
    route_clients,  \* table route_clients: bag of rows (ids left out)
    templates,      \* table route_templates: set of rows
    nextTemplate,   \* next id of route_templates
    assignments,    \* table route_assignments: bag of rows (ids left out)
    settings,       \* table settings: key |-> value
    reqs,           \* bag of the requests between their queries and their commit
    resp            \* the response of the last request that ended

authVars == <<users, tokens, now>>
inviteVars == <<invites, nextInvite, registered>>
clientVars == <<clients, nextClient, visit_logs, nextLog>>
routeVars == <<routes, nextRoute, route_clients, templates, nextTemplate>>
schedVars == <<assignments>>
settingVars == <<settings>>
dataVars == <<clientVars, routeVars, schedVars, settingVars>>
vars == <<users, tokens, now, invites, nextInvite, registered, clients, nextClient,
          visit_logs, nextLog, routes, nextRoute, route_clients, templates, nextTemplate,
          assignments, settings, reqs, resp>>

----------------------------------------------------------------------------
(* Bounds of the model *)

MaxUsers == 3
MaxInvites == 1
MaxNow == 1
MaxInflight == 2
MaxAccounts == 2
MaxTokens == 2
MaxClock == 2
MaxAssign == 3
MaxDates == 3
MaxRaceDates == 2
MaxClients == 2
MaxRoutes == 2
MaxTemplates == 1
MaxList == 2
MaxLogs == 2

(* Program constants *)

ACCESS_TOKEN_EXPIRE_HOURS == 168
HoursPerDay == 24

----------------------------------------------------------------------------
(* Values *)

Null == 0            \* NULL of a nullable integer column; row ids start at 1

Emails == {"a@x", "b@x"}
AdminEmail == "admin@routeview.local"
Roles == {"admin", "member"}

Digits == <<"0", "1", "2", "3", "4", "5", "6", "7", "8", "9">>

\* str(n) for a user id
RECURSIVE str(_)
str(n) == IF n < 10 THEN <<Digits[n + 1]>> ELSE Append(str(n \div 10), Digits[(n % 10) + 1])

IsDigit(c) == \E i \in 1..10 : Digits[i] = c
DigitVal(c) == CHOOSE i \in 0..9 : Digits[i + 1] = c

\* int(s): the value of a string of digits, "error" for the ValueError
RECURSIVE int(_)
int(s) ==
    IF Len(s) = 0 \/ \E i \in 1..Len(s) : ~IsDigit(s[i]) THEN [ok |-> FALSE, val |-> 0]
    ELSE IF Len(s) = 1 THEN [ok |-> TRUE, val |-> DigitVal(s[1])]
    ELSE [ok |-> TRUE, val |-> 10 * int(SubSeq(s, 1, Len(s) - 1)).val + DigitVal(s[Len(s)])]

get_password_hash(password) == <<"bcrypt", password>>
verify_password(plain, hashed) == hashed = <<"bcrypt", plain>>

----------------------------------------------------------------------------
(* Tokens: src/app/auth.py *)

\* What a request may carry as credentials: nothing, a string that does not
\* decode, or a signed payload.
NoCredentials == [kind |-> "none", has_sub |-> FALSE, sub |-> <<>>, exp |-> 0]
Garbage == [kind |-> "garbage", has_sub |-> FALSE, sub |-> <<>>, exp |-> 0]

\* Hours and days as periods of the clock.
Weeks(hours) == hours \div ACCESS_TOKEN_EXPIRE_HOURS

create_access_token(sub, t) ==
    [kind |-> "jwt", has_sub |-> TRUE, sub |-> sub,
     exp |-> t + Weeks(ACCESS_TOKEN_EXPIRE_HOURS)]

\* jwt.decode: the payload, or None for a bad signature or an exp in the past
decode_token(token, t) ==
    IF token.kind = "jwt" /\ token.exp >= t
    THEN [ok |-> TRUE, has_sub |-> token.has_sub, sub |-> token.sub]
    ELSE [ok |-> FALSE, has_sub |-> FALSE, sub |-> <<>>]

Rejected(code) == [status |-> code, id |-> Null]

\* get_current_user without the is_active filter of line 88
get_current_user_any_user(token, us, t) ==
    IF token.kind = "none" THEN Rejected(401)
    ELSE LET payload == decode_token(token, t) IN
         IF ~payload.ok THEN Rejected(401)
         ELSE IF ~payload.has_sub THEN Rejected(401)
         ELSE LET user_id == int(payload.sub) IN
              IF ~user_id.ok THEN Rejected(401)
              ELSE IF user_id.val \in DOMAIN us
                   THEN [status |-> 200, id |-> user_id.val]
                   ELSE Rejected(401)

get_current_user(token, us, t) ==
    IF token.kind = "none" THEN Rejected(401)
    ELSE LET payload == decode_token(token, t) IN
         IF ~payload.ok THEN Rejected(401)
         ELSE IF ~payload.has_sub THEN Rejected(401)
         ELSE LET user_id == int(payload.sub) IN
              IF ~user_id.ok THEN Rejected(401)
              ELSE IF user_id.val \in DOMAIN us /\ us[user_id.val].is_active
                   THEN [status |-> 200, id |-> user_id.val]
                   ELSE Rejected(401)

\* get_current_admin without the check of the role (lines 99-103)
get_current_admin_any_role(token, us, t) == get_current_user(token, us, t)

get_current_admin(token, us, t) ==
    LET current_user == get_current_user(token, us, t) IN
    IF current_user.status # 200 THEN current_user
    ELSE IF us[current_user.id].role # "admin" THEN Rejected(403)
    ELSE current_user

\* The credentials a client can present: none, junk, or a token it was issued.
Credentials == {NoCredentials, Garbage} \cup tokens

----------------------------------------------------------------------------
(* Responses and requests in flight *)

Response(op, status, token, arg, out) ==
    [op |-> op, status |-> status, tok |-> token, arg |-> arg, out |-> out]

Out(detail, id) == [detail |-> detail, id |-> id]

\* No response is waiting to be returned.
NoResponse == Response("none", Null, NoCredentials, <<>>, Out("none", Null))
Ready == resp.op = "none"

\* The response of the request that ended is returned to its client.
Deliver ==
    /\ ~Ready
    /\ resp' = NoResponse
    /\ UNCHANGED <<authVars, inviteVars, dataVars, reqs>>

\* A request that ends in an HTTPException raised before any write.
Fail(op, status, token, arg, detail) ==
    /\ resp' = Response(op, status, token, arg, Out(detail, Null))
    /\ UNCHANGED <<authVars, inviteVars, dataVars, reqs>>

\* At most MaxInflight requests are served at a time.
CanAccept == BagCardinality(reqs) < MaxInflight
InFlight == BagToSet(reqs)
Accept(r) == reqs' = reqs (+) SetToBag({r})
Finish(r) == reqs' = reqs (-) SetToBag({r})

----------------------------------------------------------------------------
(* State after construction: src/app/main.py 31-59 *)

SeedAdmin == [email |-> AdminEmail, password_hash |-> get_password_hash("admin123"),
              name |-> "Admin", role |-> "admin", is_active |-> TRUE]

\* User(email=, password_hash=, name=, role=): is_active defaults to True
NewUser(email, password, name, role) ==
    [email |-> email, password_hash |-> get_password_hash(password), name |-> name,
     role |-> role, is_active |-> TRUE]

\* No client, route, template or assignment yet.
\* Lines 35-42: the settings seeded at start-up.
defaults ==
    [service_thresholds |-> "{\"green_days\": 7, \"orange_days\": 14}",
     map_style |-> "positron"]

NoData ==
    /\ clients = {}
    /\ nextClient = 1
    /\ visit_logs = {}
    /\ nextLog = 1
    /\ settings = defaults
    /\ routes = {}
    /\ nextRoute = 1
    /\ route_clients = EmptyBag
    /\ templates = {}
    /\ nextTemplate = 1
    /\ assignments = EmptyBag

Init ==
    /\ users = <<SeedAdmin>>
    /\ tokens = {}
    /\ now = 0
    /\ invites = {}
    /\ nextInvite = 1
    /\ registered = {}
    /\ NoData
    /\ reqs = EmptyBag
    /\ resp = NoResponse

Tick ==
    /\ now < MaxNow
    /\ now' = now + 1
    /\ UNCHANGED <<users, tokens, inviteVars, dataVars, reqs, resp>>

----------------------------------------------------------------------------
(* Login and user management: src/app/main.py 404-500 *)

EmailTaken(email, us) == \E i \in DOMAIN us : us[i].email = email

Passwords == {"pw", "admin123"}
NoChange == "None"                 \* a field the request body leaves out
NameInputs == {NoChange, "renamed"}

login(email, password) ==
    LET found == {i \in DOMAIN users : users[i].email = email} IN
    IF found = {} \/ ~verify_password(password, users[CHOOSE i \in found : TRUE].password_hash)
    THEN Fail("login", 401, NoCredentials, <<email>>, "Invalid email or password")
    ELSE LET id == CHOOSE i \in found : TRUE IN
         IF ~users[id].is_active
         THEN Fail("login", 401, NoCredentials, <<email>>, "Account is deactivated")
         ELSE /\ tokens' = tokens \cup {create_access_token(str(id), now)}
              /\ Cardinality(tokens') <= MaxTokens
              /\ resp' = Response("login", 200, NoCredentials, <<email>>, Out("ok", id))
              /\ UNCHANGED <<users, now, inviteVars, dataVars, reqs>>

get_me(token) ==
    LET current_user == get_current_user(token, users, now) IN
    /\ resp' = Response("get_me", current_user.status, token, <<>>,
                        Out("me", current_user.id))
    /\ UNCHANGED <<authVars, inviteVars, dataVars, reqs>>

create_user(token, email, role) ==
    LET current_user == get_current_admin(token, users, now) IN
    IF current_user.status # 200
    THEN Fail("create_user", current_user.status, token, <<email>>, "rejected")
    ELSE IF EmailTaken(email, users)
    THEN Fail("create_user", 400, token, <<email>>, "Email already registered")
    ELSE /\ Len(users) < MaxAccounts
         /\ users' = Append(users, NewUser(email, "pw", "n", role))
         /\ resp' = Response("create_user", 200, token, <<email>>,
                             Out("created", Len(users) + 1))
         /\ UNCHANGED <<tokens, now, inviteVars, dataVars, reqs>>

update_user(token, user_id, name, role, is_active) ==
    LET current_user == get_current_admin(token, users, now) IN
    IF current_user.status # 200
    THEN Fail("update_user", current_user.status, token, <<user_id>>, "rejected")
    ELSE IF user_id \notin DOMAIN users
    THEN Fail("update_user", 404, token, <<user_id>>, "User not found")
    ELSE /\ users' = [users EXCEPT ![user_id] =
                         [@ EXCEPT !.name = IF name # NoChange THEN name ELSE @,
                                   !.role = IF role # NoChange THEN role ELSE @,
                                   !.is_active = IF is_active # NoChange
                                                 THEN is_active = "true" ELSE @]]
         /\ resp' = Response("update_user", 200, token, <<user_id, name, role, is_active>>,
                             Out("updated", user_id))
         /\ UNCHANGED <<tokens, now, inviteVars, dataVars, reqs>>

\* delete_user that also deletes the assignments of the user
delete_user_with_assignments(token, user_id) ==
    LET current_user == get_current_admin(token, users, now) IN
    IF current_user.status # 200
    THEN Fail("delete_user", current_user.status, token, <<user_id>>, "rejected")
    ELSE IF user_id = current_user.id
    THEN Fail("delete_user", 400, token, <<user_id>>, "Cannot delete yourself")
    ELSE IF user_id \notin DOMAIN users
    THEN Fail("delete_user", 404, token, <<user_id>>, "User not found")
    ELSE /\ users' = [users EXCEPT ![user_id].is_active = FALSE]
         /\ assignments' = [a \in {x \in DOMAIN assignments : x.user_id # user_id} |->
                               assignments[a]]
         /\ resp' = Response("delete_user", 200, token, <<user_id>>,
                             Out("User deactivated", user_id))
         /\ UNCHANGED <<tokens, now, inviteVars, settingVars, clientVars, routeVars, reqs>>

delete_user(token, user_id) ==
    LET current_user == get_current_admin(token, users, now) IN
    IF current_user.status # 200
    THEN Fail("delete_user", current_user.status, token, <<user_id>>, "rejected")
    ELSE IF user_id = current_user.id
    THEN Fail("delete_user", 400, token, <<user_id>>, "Cannot delete yourself")
    ELSE IF user_id \notin DOMAIN users
    THEN Fail("delete_user", 404, token, <<user_id>>, "User not found")
    ELSE /\ users' = [users EXCEPT ![user_id].is_active = FALSE]
         /\ resp' = Response("delete_user", 200, token, <<user_id>>,
                             Out("User deactivated", user_id))
         /\ UNCHANGED <<tokens, now, inviteVars, dataVars, reqs>>

\* Lines 427-433 and 526-532: the admin's listings; they change nothing.
list_users(token) ==
    LET current_user == get_current_admin(token, users, now) IN
    /\ resp' = Response("list_users", current_user.status, token, <<>>,
                        Out("users", IF current_user.status = 200 THEN Len(users) ELSE Null))
    /\ UNCHANGED <<authVars, inviteVars, dataVars, reqs>>

list_invite_codes(token) ==
    LET current_user == get_current_admin(token, users, now) IN
    /\ resp' = Response("list_invite_codes", current_user.status, token, <<>>,
                        Out("codes", IF current_user.status = 200
                                     THEN Cardinality(invites) ELSE Null))
    /\ UNCHANGED <<authVars, inviteVars, dataVars, reqs>>

\* A week goes by.
Pass ==
    /\ now < MaxClock
    /\ now' = now + 1
    /\ UNCHANGED <<users, tokens, inviteVars, dataVars, reqs, resp>>

\* Payloads signed with the key that create_access_token does not produce:
\* one without "sub", one whose "sub" is no number.
NoSubject == [kind |-> "jwt", has_sub |-> FALSE, sub |-> <<>>, exp |-> MaxClock + 1]
BadSubject == [kind |-> "jwt", has_sub |-> TRUE, sub |-> <<"x">>, exp |-> MaxClock + 1]
AnyCredentials == Credentials \cup {NoSubject, BadSubject}

UserIds == 1..(MaxAccounts + 1)

\* UserUpdate bodies: role and is_active given or left out, name left out
UserUpdates ==
    [name : {NoChange}, role : Roles \cup {NoChange}, is_active : {NoChange, "true", "false"}]

Next ==
    \/ Deliver
    \/ Ready /\ Pass
    \/ Ready /\ \E email \in Emails \cup {AdminEmail}, password \in Passwords : login(email, password)
    \/ Ready /\ \E token \in AnyCredentials : get_me(token)
    \/ Ready /\ \E token \in AnyCredentials, email \in Emails, role \in Roles :
           create_user(token, email, role)
    \/ Ready /\ \E token \in AnyCredentials, id \in UserIds, body \in UserUpdates :
           update_user(token, id, body.name, body.role, body.is_active)
    \/ Ready /\ \E token \in AnyCredentials, id \in UserIds : delete_user(token, id)

Spec == Init /\ [][Next]_vars

----------------------------------------------------------------------------
(* Invite codes: src/app/main.py 505-550 *)

\* The code string of the invite row with id n is written n; NoCode is the
\* missing or empty invite_code of a request, UnknownCode a string that was
\* never issued.
NoCode == Null
UnknownCode == MaxInvites + 1
CodeInputs == {NoCode, UnknownCode} \cup (1..MaxInvites)
\* expires_in_days of a create_invite_code request: the default, 7
ExpiresInDays == {7}

create_invite_code(token, expires_in_days) ==
    LET current_user == get_current_admin(token, users, now) IN
    IF current_user.status # 200
    THEN /\ resp' = Response("create_invite_code", current_user.status, token,
                             <<expires_in_days>>, Out("rejected", Null))
         /\ UNCHANGED <<authVars, inviteVars, dataVars, reqs>>
    ELSE /\ nextInvite <= MaxInvites
         /\ invites' = invites \cup {[id |-> nextInvite, code |-> nextInvite,
                                      created_by |-> current_user.id, used_by |-> Null,
                                      expires_at |-> now + Weeks(HoursPerDay * expires_in_days)]}
         /\ nextInvite' = nextInvite + 1
         /\ resp' = Response("create_invite_code", 200, token, <<expires_in_days>>,
                             Out("created", nextInvite))
         /\ UNCHANGED <<authVars, registered, dataVars, reqs>>

delete_invite_code(token, code_id) ==
    LET current_user == get_current_admin(token, users, now)
        found == {i \in invites : i.id = code_id}
    IN  IF current_user.status # 200
        THEN /\ resp' = Response("delete_invite_code", current_user.status, token,
                                 <<code_id>>, Out("rejected", Null))
             /\ UNCHANGED <<authVars, inviteVars, dataVars, reqs>>
        ELSE IF found = {}
        THEN /\ resp' = Response("delete_invite_code", 404, token, <<code_id>>,
                                 Out("Invite code not found", Null))
             /\ UNCHANGED <<authVars, inviteVars, dataVars, reqs>>
        ELSE IF (CHOOSE i \in found : TRUE).used_by # Null
        THEN /\ resp' = Response("delete_invite_code", 400, token, <<code_id>>,
                                 Out("Cannot delete used invite code", Null))
             /\ UNCHANGED <<authVars, inviteVars, dataVars, reqs>>
        ELSE /\ invites' = invites \ found
             /\ resp' = Response("delete_invite_code", 200, token, <<code_id>>,
                                 Out("Invite code deleted", code_id))
             /\ UNCHANGED <<authVars, nextInvite, registered, dataVars, reqs>>

----------------------------------------------------------------------------
(* register: src/app/main.py 362-401 *)

\* register_query accepting a code on the day it expires (>= for >)
register_query_expiry_inclusive(email, code, us, inv, t) ==
    IF \E i \in DOMAIN us : us[i].email = email
    THEN [status |-> 400, detail |-> "Email already registered", invite |-> Null]
    ELSE IF code = NoCode
    THEN [status |-> 400, detail |-> "Invite code required", invite |-> Null]
    ELSE LET found == {i \in inv : i.code = code /\ i.used_by = Null /\ i.expires_at >= t} IN
         IF found = {}
         THEN [status |-> 400, detail |-> "Invalid or expired invite code", invite |-> Null]
         ELSE [status |-> 200, detail |-> "ok", invite |-> (CHOOSE i \in found : TRUE).id]

\* Lines 365-381: the three checks, each a query of the committed state.
register_query(email, code, us, inv, t) ==
    IF EmailTaken(email, us)
    THEN [status |-> 400, detail |-> "Email already registered", invite |-> Null]
    ELSE IF code = NoCode
    THEN [status |-> 400, detail |-> "Invite code required", invite |-> Null]
    ELSE LET found == {i \in inv : i.code = code /\ i.used_by = Null /\ i.expires_at > t} IN
         IF found = {}
         THEN [status |-> 400, detail |-> "Invalid or expired invite code", invite |-> Null]
         ELSE [status |-> 200, detail |-> "ok", invite |-> (CHOOSE i \in found : TRUE).id]

\* register_write committing the user before the invite row is updated
register_write_user_first(email, invite_id, us, inv) ==
    IF \E i \in DOMAIN us : us[i].email = email
    THEN [status |-> 500, users |-> us, invites |-> inv, id |-> Null]
    ELSE LET created == Append(us, [email |-> email,
                                    password_hash |-> get_password_hash("pw"),
                                    name |-> "n", role |-> "member", is_active |-> TRUE])
         IN  IF ~\E i \in inv : i.id = invite_id
             THEN [status |-> 500, users |-> created, invites |-> inv, id |-> Null]
             ELSE [status |-> 200, users |-> created,
                   invites |-> {IF i.id = invite_id THEN [i EXCEPT !.used_by = Len(us) + 1]
                                ELSE i : i \in inv},
                   id |-> Len(us) + 1]

\* Lines 383-397: INSERT the user (flush), UPDATE the invite row that was read,
\* commit.  The INSERT fails on the unique index of users.email, the UPDATE when
\* the row it names is gone; either way the transaction is rolled back.
register_write(email, invite_id, us, inv) ==
    IF EmailTaken(email, us)
    THEN [status |-> 500, users |-> us, invites |-> inv, id |-> Null]
    ELSE IF ~\E i \in inv : i.id = invite_id
    THEN [status |-> 500, users |-> us, invites |-> inv, id |-> Null]
    ELSE [status |-> 200,
          users |-> Append(us, NewUser(email, "pw", "n", "member")),
          invites |-> {IF i.id = invite_id THEN [i EXCEPT !.used_by = Len(us) + 1] ELSE i :
                       i \in inv},
          id |-> Len(us) + 1]

\* The writes of register applied to the tables, and its response.
RegisterFinish(email, code, invite_id) ==
    LET w == register_write(email, invite_id, users, invites) IN
    /\ users' = w.users
    /\ invites' = w.invites
    /\ tokens' = IF w.status = 200
                 THEN tokens \cup {create_access_token(str(w.id), now)}
                 ELSE tokens
    /\ registered' = IF w.status = 200
                     THEN registered \cup {[user |-> w.id, code |-> invite_id]}
                     ELSE registered
    /\ resp' = Response("register", w.status, NoCredentials, <<email, code>>,
                        Out(IF w.status = 200 THEN "ok" ELSE "Internal Server Error", w.id))
    /\ UNCHANGED <<now, nextInvite, dataVars>>

\* The whole handler, run with no other request in between.
register(email, code) ==
    LET q == register_query(email, code, users, invites, now) IN
    IF q.status # 200
    THEN /\ resp' = Response("register", q.status, NoCredentials, <<email, code>>,
                             Out(q.detail, Null))
         /\ UNCHANGED <<authVars, inviteVars, dataVars, reqs>>
    ELSE /\ Len(users) < MaxUsers
         /\ RegisterFinish(email, code, q.invite)
         /\ UNCHANGED reqs

\* The handler up to line 381, for a request served concurrently with others.
register_begin(email, code) ==
    LET q == register_query(email, code, users, invites, now) IN
    /\ CanAccept
    /\ IF q.status # 200
       THEN /\ resp' = Response("register", q.status, NoCredentials, <<email, code>>,
                                Out(q.detail, Null))
            /\ UNCHANGED <<authVars, inviteVars, dataVars, reqs>>
       ELSE /\ Accept([op |-> "register", email |-> email, code |-> code,
                       invite |-> q.invite])
            /\ UNCHANGED <<authVars, inviteVars, dataVars, resp>>

\* The handler from line 383 on.
register_commit(r) ==
    /\ r.op = "register"
    /\ Len(users) < MaxUsers
    /\ RegisterFinish(r.email, r.code, r.invite)
    /\ Finish(r)

----------------------------------------------------------------------------
(* Registration under concurrent requests, an admin having logged in *)

AdminToken == create_access_token(str(1), 0)

InitRegister ==
    /\ users = <<SeedAdmin>>
    /\ tokens = {AdminToken}
    /\ now = 0
    /\ invites = {}
    /\ nextInvite = 1
    /\ registered = {}
    /\ NoData
    /\ reqs = EmptyBag
    /\ resp = NoResponse

NextRegister ==
    \/ Deliver
    \/ Ready /\ Tick
    \/ Ready /\ \E token \in Credentials, d \in ExpiresInDays : create_invite_code(token, d)
    \/ Ready /\ \E token \in Credentials, id \in 1..MaxInvites : delete_invite_code(token, id)
    \/ Ready /\ \E email \in Emails, code \in CodeInputs : register_begin(email, code)
    \/ Ready /\ \E r \in InFlight : register_commit(r)

SpecRegister == InitRegister /\ [][NextRegister]_vars

(* Registration with the requests served one at a time *)

NextRegisterSeq ==
    \/ Deliver
    \/ Ready /\ Tick
    \/ Ready /\ \E token \in Credentials, d \in ExpiresInDays : create_invite_code(token, d)
    \/ Ready /\ \E token \in Credentials, id \in 1..MaxInvites : delete_invite_code(token, id)
    \/ Ready /\ \E email \in Emails, code \in CodeInputs : register(email, code)

SpecRegisterSeq == InitRegister /\ [][NextRegisterSeq]_vars

----------------------------------------------------------------------------
(* Clients and their visit logs, and the /api/locations aliases:
   src/app/main.py 976-982, 1036-1223 *)

\* What a handler of this section answers and the rows it leaves, as computed
\* from the current state: status, returned body, and the tables it may write.
ClientOutcome(status, detail, id, body, cs, nc, logs, nl, rcs) ==
    [status |-> status, detail |-> detail, id |-> id, body |-> body, clients |-> cs,
     nextClient |-> nc, visit_logs |-> logs, nextLog |-> nl, route_clients |-> rcs]

\* The handler raised an HTTPException or only read: no table is written.
ClientsAsBefore(status, detail, body) ==
    ClientOutcome(status, detail, Null, body, clients, nextClient, visit_logs, nextLog,
                  route_clients)

ApplyClientOutcome(op, token, arg, o) ==
    /\ clients' = o.clients
    /\ nextClient' = o.nextClient
    /\ visit_logs' = o.visit_logs
    /\ nextLog' = o.nextLog
    /\ route_clients' = o.route_clients
    /\ resp' = Response(op, o.status, token, arg, Out(o.detail, o.id))
    /\ UNCHANGED <<authVars, inviteVars, settingVars, routes, nextRoute, templates,
                   nextTemplate, schedVars, reqs>>

\* Client(**client.model_dump()): every field of the body is stored, a field
\* the body leaves out as None.
NewClient(id, name, notes) == [id |-> id, name |-> name, notes |-> notes]

get_clients_outcome(token) ==
    LET current_user == get_current_user(token, users, now) IN
    IF current_user.status # 200
    THEN ClientsAsBefore(current_user.status, "rejected", {})
    ELSE ClientsAsBefore(200, "clients", clients)

get_locations_outcome(token) ==
    LET current_user == get_current_user(token, users, now) IN
    IF current_user.status # 200
    THEN ClientsAsBefore(current_user.status, "rejected", {})
    ELSE ClientsAsBefore(200, "locations", clients)

create_client_outcome(token, name, notes) ==
    LET current_user == get_current_user(token, users, now) IN
    IF current_user.status # 200
    THEN ClientsAsBefore(current_user.status, "rejected", {})
    ELSE ClientOutcome(200, "created", nextClient, {NewClient(nextClient, name, notes)},
                       clients \cup {NewClient(nextClient, name, notes)}, nextClient + 1,
                       visit_logs, nextLog, route_clients)

create_location_outcome(token, name, notes) ==
    LET current_user == get_current_user(token, users, now) IN
    IF current_user.status # 200
    THEN ClientsAsBefore(current_user.status, "rejected", {})
    ELSE ClientOutcome(200, "created", nextClient, {NewClient(nextClient, name, notes)},
                       clients \cup {NewClient(nextClient, name, notes)}, nextClient + 1,
                       visit_logs, nextLog, route_clients)

get_client_outcome(token, client_id) ==
    LET current_user == get_current_user(token, users, now) IN
    IF current_user.status # 200
    THEN ClientsAsBefore(current_user.status, "rejected", {})
    ELSE IF ~\E c \in clients : c.id = client_id
    THEN ClientsAsBefore(404, "Client not found", {})
    ELSE ClientsAsBefore(200, "client", {c \in clients : c.id = client_id})

get_location_outcome(token, location_id) ==
    LET current_user == get_current_user(token, users, now) IN
    IF current_user.status # 200
    THEN ClientsAsBefore(current_user.status, "rejected", {})
    ELSE IF ~\E c \in clients : c.id = location_id
    THEN ClientsAsBefore(404, "Location not found", {})
    ELSE ClientsAsBefore(200, "location", {c \in clients : c.id = location_id})

\* Lines 1072-1073 and 1147-1148: setattr for every field of the body.
update_client_outcome(token, client_id, name, notes) ==
    LET current_user == get_current_user(token, users, now) IN
    IF current_user.status # 200
    THEN ClientsAsBefore(current_user.status, "rejected", {})
    ELSE IF ~\E c \in clients : c.id = client_id
    THEN ClientsAsBefore(404, "Client not found", {})
    ELSE ClientOutcome(200, "updated", client_id, {NewClient(client_id, name, notes)},
                       {IF c.id = client_id THEN [c EXCEPT !.name = name, !.notes = notes]
                        ELSE c : c \in clients},
                       nextClient, visit_logs, nextLog, route_clients)

update_location_outcome(token, location_id, name, notes) ==
    LET current_user == get_current_user(token, users, now) IN
    IF current_user.status # 200
    THEN ClientsAsBefore(current_user.status, "rejected", {})
    ELSE IF ~\E c \in clients : c.id = location_id
    THEN ClientsAsBefore(404, "Location not found", {})
    ELSE ClientOutcome(200, "updated", location_id, {NewClient(location_id, name, notes)},
                       {IF c.id = location_id THEN [c EXCEPT !.name = name, !.notes = notes]
                        ELSE c : c \in clients},
                       nextClient, visit_logs, nextLog, route_clients)

\* Lines 1096-1102 and 1162-1166: the rows of route_clients that name the
\* client are deleted, then the client, and with it (cascade) its visit logs.
DeleteClientRows(status, detail, client_id) ==
    ClientOutcome(status, detail, client_id, {},
                  {c \in clients : c.id # client_id}, nextClient,
                  {l \in visit_logs : l.client_id # client_id}, nextLog,
                  [rc \in {x \in BagToSet(route_clients) : x.client_id # client_id}
                   |-> route_clients[rc]])

\* delete_client leaving the visit logs of the client (no cascade on line 62)
delete_client_outcome_keep_logs(token, client_id) ==
    LET current_user == get_current_admin(token, users, now) IN
    IF current_user.status # 200
    THEN ClientsAsBefore(current_user.status, "rejected", {})
    ELSE IF ~\E c \in clients : c.id = client_id
    THEN ClientsAsBefore(404, "Client not found", {})
    ELSE [DeleteClientRows(200, "Client deleted", client_id)
              EXCEPT !.visit_logs = visit_logs]

delete_client_outcome(token, client_id) ==
    LET current_user == get_current_admin(token, users, now) IN
    IF current_user.status # 200
    THEN ClientsAsBefore(current_user.status, "rejected", {})
    ELSE IF ~\E c \in clients : c.id = client_id
    THEN ClientsAsBefore(404, "Client not found", {})
    ELSE DeleteClientRows(200, "Client deleted", client_id)

\* delete_location without the statement of line 1163
delete_location_outcome_keep_rows(token, location_id) ==
    LET current_user == get_current_admin(token, users, now) IN
    IF current_user.status # 200
    THEN ClientsAsBefore(current_user.status, "rejected", {})
    ELSE IF ~\E c \in clients : c.id = location_id
    THEN ClientsAsBefore(404, "Location not found", {})
    ELSE [DeleteClientRows(200, "Location deleted", location_id)
              EXCEPT !.route_clients = route_clients]

delete_location_outcome(token, location_id) ==
    LET current_user == get_current_admin(token, users, now) IN
    IF current_user.status # 200
    THEN ClientsAsBefore(current_user.status, "rejected", {})
    ELSE IF ~\E c \in clients : c.id = location_id
    THEN ClientsAsBefore(404, "Location not found", {})
    ELSE DeleteClientRows(200, "Location deleted", location_id)

get_client_visit_logs_outcome(token, client_id) ==
    LET current_user == get_current_user(token, users, now) IN
    IF current_user.status # 200
    THEN ClientsAsBefore(current_user.status, "rejected", {})
    ELSE ClientsAsBefore(200, "logs", {l \in visit_logs : l.client_id = client_id})

\* Line 1217: the alias calls get_client_visit_logs.
get_visit_logs_outcome(token, location_id) ==
    get_client_visit_logs_outcome(token, location_id)

NewVisitLog(id, client_id, checked_in_by, created_at) ==
    [id |-> id, client_id |-> client_id, checked_in_by |-> checked_in_by,
     created_at |-> created_at]

\* create_client_visit_log without the look-up of the client (lines 1193-1195)
create_client_visit_log_outcome_unchecked(token, client_id) ==
    LET current_user == get_current_user(token, users, now) IN
    IF current_user.status # 200
    THEN ClientsAsBefore(current_user.status, "rejected", {})
    ELSE ClientOutcome(200, "created", nextLog,
                       {NewVisitLog(nextLog, client_id, current_user.id, now)},
                       clients, nextClient,
                       visit_logs \cup {NewVisitLog(nextLog, client_id, current_user.id, now)},
                       nextLog + 1, route_clients)

create_client_visit_log_outcome(token, client_id) ==
    LET current_user == get_current_user(token, users, now) IN
    IF current_user.status # 200
    THEN ClientsAsBefore(current_user.status, "rejected", {})
    ELSE IF ~\E c \in clients : c.id = client_id
    THEN ClientsAsBefore(404, "Client not found", {})
    ELSE ClientOutcome(200, "created", nextLog,
                       {NewVisitLog(nextLog, client_id, current_user.id, now)},
                       clients, nextClient,
                       visit_logs \cup {NewVisitLog(nextLog, client_id, current_user.id, now)},
                       nextLog + 1, route_clients)

\* Line 1223: the alias calls create_client_visit_log.
create_visit_log_outcome(token, location_id) ==
    create_client_visit_log_outcome(token, location_id)

get_clients(token) ==
    ApplyClientOutcome("get_clients", token, <<>>, get_clients_outcome(token))

get_locations(token) ==
    ApplyClientOutcome("get_locations", token, <<>>, get_locations_outcome(token))

create_client(token, name, notes) ==
    /\ nextClient <= MaxClients
    /\ ApplyClientOutcome("create_client", token, <<name, notes>>,
                          create_client_outcome(token, name, notes))

create_location(token, name, notes) ==
    /\ nextClient <= MaxClients
    /\ ApplyClientOutcome("create_location", token, <<name, notes>>,
                          create_location_outcome(token, name, notes))

get_client(token, client_id) ==
    ApplyClientOutcome("get_client", token, <<client_id>>,
                       get_client_outcome(token, client_id))

get_location(token, location_id) ==
    ApplyClientOutcome("get_location", token, <<location_id>>,
                       get_location_outcome(token, location_id))

update_client(token, client_id, name, notes) ==
    ApplyClientOutcome("update_client", token, <<client_id, name, notes>>,
                       update_client_outcome(token, client_id, name, notes))

update_location(token, location_id, name, notes) ==
    ApplyClientOutcome("update_location", token, <<location_id, name, notes>>,
                       update_location_outcome(token, location_id, name, notes))

delete_client(token, client_id) ==
    ApplyClientOutcome("delete_client", token, <<client_id>>,
                       delete_client_outcome(token, client_id))

delete_location(token, location_id) ==
    ApplyClientOutcome("delete_location", token, <<location_id>>,
                       delete_location_outcome(token, location_id))

get_client_visit_logs(token, client_id) ==
    ApplyClientOutcome("get_client_visit_logs", token, <<client_id>>,
                       get_client_visit_logs_outcome(token, client_id))

get_visit_logs(token, location_id) ==
    ApplyClientOutcome("get_visit_logs", token, <<location_id>>,
                       get_visit_logs_outcome(token, location_id))

create_client_visit_log(token, client_id) ==
    /\ nextLog <= MaxLogs
    /\ ApplyClientOutcome("create_client_visit_log", token, <<client_id>>,
                          create_client_visit_log_outcome(token, client_id))

create_visit_log(token, location_id) ==
    /\ nextLog <= MaxLogs
    /\ ApplyClientOutcome("create_visit_log", token, <<location_id>>,
                          create_visit_log_outcome(token, location_id))

----------------------------------------------------------------------------
(* Routes: src/app/main.py 1257-1317 *)

ClientExists(client_id) == \E c \in clients : c.id = client_id

\* for idx, client_id in enumerate(client_ids): a row with position idx for
\* every id that names a client; the other ids are skipped.
MembershipRows(route_id, client_ids) ==
    {[route_id |-> route_id, client_id |-> client_ids[i], position |-> i - 1] :
        i \in {j \in 1..Len(client_ids) : ClientExists(client_ids[j])}}

RowsOfRoute(route_id) == {rc \in BagToSet(route_clients) : rc.route_id = route_id}

\* The bag without the rows in gone.
Without(bag, gone) == [x \in BagToSet(bag) \ gone |-> bag[x]]

\* create_route refusing a list that names a client that does not exist, as
\* create_route_template does (lines 771-774)
create_route_strict(token, name, client_ids) ==
    LET current_user == get_current_user(token, users, now) IN
    IF current_user.status # 200
    THEN Fail("create_route", current_user.status, token, <<Null, client_ids>>, "rejected")
    ELSE IF \E i \in 1..Len(client_ids) : ~ClientExists(client_ids[i])
    THEN Fail("create_route", 400, token, <<Null, client_ids>>, "Client not found")
    ELSE /\ nextRoute <= MaxRoutes
         /\ routes' = routes \cup {[id |-> nextRoute, name |-> name]}
         /\ nextRoute' = nextRoute + 1
         /\ route_clients' = route_clients (+) SetToBag(MembershipRows(nextRoute, client_ids))
         /\ resp' = Response("create_route", 200, token, <<nextRoute, client_ids>>,
                             Out("created", nextRoute))
         /\ UNCHANGED <<authVars, inviteVars, settingVars, clientVars, templates, nextTemplate,
                        schedVars, reqs>>

create_route(token, name, client_ids) ==
    LET current_user == get_current_user(token, users, now) IN
    IF current_user.status # 200
    THEN Fail("create_route", current_user.status, token, <<Null, client_ids>>, "rejected")
    ELSE /\ nextRoute <= MaxRoutes
         /\ routes' = routes \cup {[id |-> nextRoute, name |-> name]}
         /\ nextRoute' = nextRoute + 1
         /\ route_clients' = route_clients (+) SetToBag(MembershipRows(nextRoute, client_ids))
         /\ resp' = Response("create_route", 200, token, <<nextRoute, client_ids>>,
                             Out("created", nextRoute))
         /\ UNCHANGED <<authVars, inviteVars, settingVars, clientVars, templates, nextTemplate,
                        schedVars, reqs>>

\* update_route adding the new rows without deleting the old ones (line 1295)
update_route_keep_rows(token, route_id, name, client_ids) ==
    LET current_user == get_current_user(token, users, now) IN
    IF current_user.status # 200
    THEN Fail("update_route", current_user.status, token, <<route_id, client_ids>>,
              "rejected")
    ELSE IF ~\E r \in routes : r.id = route_id
    THEN Fail("update_route", 404, token, <<route_id, client_ids>>, "Route not found")
    ELSE /\ routes' = {IF r.id = route_id THEN [r EXCEPT !.name = name] ELSE r : r \in routes}
         /\ route_clients' = route_clients (+) SetToBag(MembershipRows(route_id, client_ids))
         /\ resp' = Response("update_route", 200, token, <<route_id, client_ids, name>>,
                             Out("updated", route_id))
         /\ UNCHANGED <<authVars, inviteVars, settingVars, clientVars, nextRoute, templates,
                        nextTemplate, schedVars, reqs>>

update_route(token, route_id, name, client_ids) ==
    LET current_user == get_current_user(token, users, now) IN
    IF current_user.status # 200
    THEN Fail("update_route", current_user.status, token, <<route_id, client_ids>>,
              "rejected")
    ELSE IF ~\E r \in routes : r.id = route_id
    THEN Fail("update_route", 404, token, <<route_id, client_ids>>, "Route not found")
    ELSE /\ routes' = {IF r.id = route_id THEN [r EXCEPT !.name = name] ELSE r : r \in routes}
         /\ route_clients' = Without(route_clients, RowsOfRoute(route_id))
                             (+) SetToBag(MembershipRows(route_id, client_ids))
         /\ resp' = Response("update_route", 200, token, <<route_id, client_ids, name>>,
                             Out("updated", route_id))
         /\ UNCHANGED <<authVars, inviteVars, settingVars, clientVars, nextRoute, templates,
                        nextTemplate, schedVars, reqs>>

\* delete_route without the cascade to route_assignments (models.py line 92)
delete_route_keep_assignments(token, route_id) ==
    LET current_user == get_current_admin(token, users, now) IN
    IF current_user.status # 200
    THEN Fail("delete_route", current_user.status, token, <<route_id>>, "rejected")
    ELSE IF ~\E r \in routes : r.id = route_id
    THEN Fail("delete_route", 404, token, <<route_id>>, "Route not found")
    ELSE /\ routes' = {r \in routes : r.id # route_id}
         /\ route_clients' = Without(route_clients, RowsOfRoute(route_id))
         /\ resp' = Response("delete_route", 200, token, <<route_id>>,
                             Out("Route deleted", route_id))
         /\ UNCHANGED <<authVars, inviteVars, settingVars, clientVars, nextRoute, templates,
                        nextTemplate, schedVars, reqs>>

\* Line 1315: the route is deleted and with it (cascade) its rows of
\* route_clients and of route_assignments.
delete_route(token, route_id) ==
    LET current_user == get_current_admin(token, users, now) IN
    IF current_user.status # 200
    THEN Fail("delete_route", current_user.status, token, <<route_id>>, "rejected")
    ELSE IF ~\E r \in routes : r.id = route_id
    THEN Fail("delete_route", 404, token, <<route_id>>, "Route not found")
    ELSE /\ routes' = {r \in routes : r.id # route_id}
         /\ route_clients' = Without(route_clients, RowsOfRoute(route_id))
         /\ assignments' = Without(assignments,
                                   {a \in BagToSet(assignments) : a.route_id = route_id})
         /\ resp' = Response("delete_route", 200, token, <<route_id>>,
                             Out("Route deleted", route_id))
         /\ UNCHANGED <<authVars, inviteVars, settingVars, clientVars, nextRoute, templates,
                        nextTemplate, reqs>>

----------------------------------------------------------------------------
(* Route templates: src/app/main.py 763-795, 897-932 *)

\* json.dumps of a list of integers: "[", the numbers in decimal separated
\* by ",", "]"; json.loads reads the numbers back in order.
RECURSIVE json_dumps_items(_)
json_dumps_items(ids) ==
    IF Len(ids) = 0 THEN <<>>
    ELSE IF Len(ids) = 1 THEN str(Head(ids))
    ELSE str(Head(ids)) \o <<",">> \o json_dumps_items(Tail(ids))

json_dumps(ids) == <<"[">> \o json_dumps_items(ids) \o <<"]">>

RECURSIVE json_loads_items(_, _, _)
json_loads_items(text, number, acc) ==
    IF text = <<>>
    THEN IF number = <<>> THEN acc ELSE Append(acc, int(number).val)
    ELSE IF Head(text) = ","
    THEN json_loads_items(Tail(text), <<>>, Append(acc, int(number).val))
    ELSE json_loads_items(Tail(text), Append(number, Head(text)), acc)

json_loads(text) == json_loads_items(SubSeq(text, 2, Len(text) - 1), <<>>, <<>>)

create_route_template(token, name, client_ids) ==
    LET current_user == get_current_user(token, users, now) IN
    IF current_user.status # 200
    THEN Fail("create_route_template", current_user.status, token, <<client_ids>>,
              "rejected")
    ELSE IF \E i \in 1..Len(client_ids) : ~ClientExists(client_ids[i])
    THEN Fail("create_route_template", 400, token, <<client_ids>>, "Client not found")
    ELSE /\ nextTemplate <= MaxTemplates
         /\ templates' = templates \cup {[id |-> nextTemplate, name |-> name,
                                          client_ids_json |-> json_dumps(client_ids),
                                          created_by |-> current_user.id]}
         /\ nextTemplate' = nextTemplate + 1
         /\ resp' = Response("create_route_template", 200, token, <<client_ids>>,
                             Out("created", nextTemplate))
         /\ UNCHANGED <<authVars, inviteVars, settingVars, clientVars, routes, nextRoute, route_clients,
                        schedVars, reqs>>

\* update_route_template leaving the stored list of clients as it is
update_route_template_keep_list(token, template_id, name, client_ids) ==
    LET current_user == get_current_user(token, users, now)
        found == {t \in templates : t.id = template_id}
        arg == <<template_id, client_ids, name>>
    IN  IF current_user.status # 200
        THEN Fail("update_route_template", current_user.status, token, arg, "rejected")
        ELSE IF found = {}
        THEN Fail("update_route_template", 404, token, arg, "Template not found")
        ELSE IF /\ (CHOOSE t \in found : TRUE).created_by # current_user.id
                /\ users[current_user.id].role # "admin"
        THEN Fail("update_route_template", 403, token, arg, "Not authorized")
        ELSE IF \E i \in 1..Len(client_ids) : ~ClientExists(client_ids[i])
        THEN Fail("update_route_template", 400, token, arg, "Client not found")
        ELSE /\ templates' = {IF t.id = template_id THEN [t EXCEPT !.name = name] ELSE t :
                                 t \in templates}
             /\ resp' = Response("update_route_template", 200, token, arg,
                                 Out("updated", template_id))
             /\ UNCHANGED <<authVars, inviteVars, settingVars, clientVars, routes, nextRoute,
                            route_clients, nextTemplate, schedVars, reqs>>

\* Lines 836-874: the creator or an admin replaces the name and the list of
\* clients of a template; a list naming an unknown client is refused.
update_route_template(token, template_id, name, client_ids) ==
    LET current_user == get_current_user(token, users, now)
        found == {t \in templates : t.id = template_id}
        arg == <<template_id, client_ids, name>>
    IN  IF current_user.status # 200
        THEN Fail("update_route_template", current_user.status, token, arg, "rejected")
        ELSE IF found = {}
        THEN Fail("update_route_template", 404, token, arg, "Template not found")
        ELSE IF /\ (CHOOSE t \in found : TRUE).created_by # current_user.id
                /\ users[current_user.id].role # "admin"
        THEN Fail("update_route_template", 403, token, arg, "Not authorized")
        ELSE IF \E i \in 1..Len(client_ids) : ~ClientExists(client_ids[i])
        THEN Fail("update_route_template", 400, token, arg, "Client not found")
        ELSE /\ templates' = {IF t.id = template_id
                              THEN [t EXCEPT !.name = name,
                                             !.client_ids_json = json_dumps(client_ids)]
                              ELSE t : t \in templates}
             /\ resp' = Response("update_route_template", 200, token, arg,
                                 Out("updated", template_id))
             /\ UNCHANGED <<authVars, inviteVars, settingVars, clientVars, routes, nextRoute,
                            route_clients, nextTemplate, schedVars, reqs>>

\* create_route_from_template refusing a stored list that names a client
\* that no longer exists, as create_route_template does (lines 771-774)
create_route_from_template_strict(token, template_id) ==
    LET current_user == get_current_user(token, users, now)
        found == {t \in templates : t.id = template_id}
    IN  IF current_user.status # 200
        THEN Fail("create_route_from_template", current_user.status, token,
                  <<template_id>>, "rejected")
        ELSE IF found = {}
        THEN Fail("create_route_from_template", 404, token, <<template_id>>,
                  "Template not found")
        ELSE LET template == CHOOSE t \in found : TRUE
                 client_ids == json_loads(template.client_ids_json)
             IN  IF \E i \in 1..Len(client_ids) : ~ClientExists(client_ids[i])
                 THEN Fail("create_route_from_template", 400, token, <<template_id>>,
                           "Client not found")
                 ELSE /\ nextRoute <= MaxRoutes
                      /\ routes' = routes \cup {[id |-> nextRoute, name |-> template.name]}
                      /\ nextRoute' = nextRoute + 1
                      /\ route_clients' = route_clients
                                          (+) SetToBag(MembershipRows(nextRoute, client_ids))
                      /\ resp' = Response("create_route_from_template", 200, token,
                                          <<template_id>>, Out("created", nextRoute))
                      /\ UNCHANGED <<authVars, inviteVars, settingVars, clientVars, templates,
                                     nextTemplate, schedVars, reqs>>

create_route_from_template(token, template_id) ==
    LET current_user == get_current_user(token, users, now)
        found == {t \in templates : t.id = template_id}
    IN  IF current_user.status # 200
        THEN Fail("create_route_from_template", current_user.status, token,
                  <<template_id>>, "rejected")
        ELSE IF found = {}
        THEN Fail("create_route_from_template", 404, token, <<template_id>>,
                  "Template not found")
        ELSE LET template == CHOOSE t \in found : TRUE
                 client_ids == json_loads(template.client_ids_json)
             IN  /\ nextRoute <= MaxRoutes
                 /\ routes' = routes \cup {[id |-> nextRoute, name |-> template.name]}
                 /\ nextRoute' = nextRoute + 1
                 /\ route_clients' = route_clients
                                     (+) SetToBag(MembershipRows(nextRoute, client_ids))
                 /\ resp' = Response("create_route_from_template", 200, token,
                                     <<template_id>>, Out("created", nextRoute))
                 /\ UNCHANGED <<authVars, inviteVars, settingVars, clientVars, templates, nextTemplate,
                                schedVars, reqs>>

----------------------------------------------------------------------------
(* Templates saved from routes, and deleted: src/app/main.py 877-894, 935-972 *)

\* sorted(route.clients, key=lambda x: x.position): the rows by ascending
\* position.  The rows of a route written by one request have distinct
\* positions.
RECURSIVE sorted_by_position(_)
sorted_by_position(rows) ==
    IF rows = {} THEN <<>>
    ELSE LET first == CHOOSE rc \in rows : \A other \in rows : rc.position <= other.position
         IN  <<first>> \o sorted_by_position(rows \ {first})

\* f"{route.name} Template"
TemplateNameOf(route_name) ==
    CASE route_name = "north" -> "north Template"
      [] route_name = "south" -> "south Template"
      [] OTHER -> "Template"

\* Lines 935-972: a template with the client ids of the route in the order of
\* their positions, owned by the caller.
save_route_as_template(token, route_id, name) ==
    LET current_user == get_current_user(token, users, now)
        found == {r \in routes : r.id = route_id}
        arg == <<route_id, name>>
    IN  IF current_user.status # 200
        THEN Fail("save_route_as_template", current_user.status, token, arg, "rejected")
        ELSE IF found = {}
        THEN Fail("save_route_as_template", 404, token, arg, "Route not found")
        ELSE LET route == CHOOSE r \in found : TRUE
                 sorted == sorted_by_position(RowsOfRoute(route_id))
                 client_ids == [i \in 1..Len(sorted) |-> sorted[i].client_id]
                 template_name == IF name # NoChange THEN name ELSE TemplateNameOf(route.name)
             IN  /\ nextTemplate <= MaxTemplates
                 /\ templates' = templates \cup {[id |-> nextTemplate, name |-> template_name,
                                                  client_ids_json |-> json_dumps(client_ids),
                                                  created_by |-> current_user.id]}
                 /\ nextTemplate' = nextTemplate + 1
                 /\ resp' = Response("save_route_as_template", 200, token, arg,
                                     Out("created", nextTemplate))
                 /\ UNCHANGED <<authVars, inviteVars, settingVars, clientVars, routes,
                                nextRoute, route_clients, schedVars, reqs>>

\* delete_route_template letting every authenticated caller delete
delete_route_template_by_anyone(token, template_id) ==
    LET current_user == get_current_user(token, users, now)
        found == {t \in templates : t.id = template_id}
    IN  IF current_user.status # 200
        THEN Fail("delete_route_template", current_user.status, token, <<template_id>>,
                  "rejected")
        ELSE IF found = {}
        THEN Fail("delete_route_template", 404, token, <<template_id>>, "Template not found")
        ELSE /\ templates' = templates \ found
             /\ resp' = Response("delete_route_template", 200, token, <<template_id>>,
                                 Out("Template deleted", template_id))
             /\ UNCHANGED <<authVars, inviteVars, settingVars, clientVars, routes, nextRoute,
                            route_clients, nextTemplate, schedVars, reqs>>

\* Lines 877-894: the creator or an admin deletes a template.
delete_route_template(token, template_id) ==
    LET current_user == get_current_user(token, users, now)
        found == {t \in templates : t.id = template_id}
    IN  IF current_user.status # 200
        THEN Fail("delete_route_template", current_user.status, token, <<template_id>>,
                  "rejected")
        ELSE IF found = {}
        THEN Fail("delete_route_template", 404, token, <<template_id>>, "Template not found")
        ELSE IF /\ (CHOOSE t \in found : TRUE).created_by # current_user.id
                /\ users[current_user.id].role # "admin"
        THEN Fail("delete_route_template", 403, token, <<template_id>>, "Not authorized")
        ELSE /\ templates' = templates \ found
             /\ resp' = Response("delete_route_template", 200, token, <<template_id>>,
                                 Out("Template deleted", template_id))
             /\ UNCHANGED <<authVars, inviteVars, settingVars, clientVars, routes, nextRoute,
                            route_clients, nextTemplate, schedVars, reqs>>

----------------------------------------------------------------------------

(* Deleting a visit log; settings: src/app/main.py 1226-1235, 1338-1349 *)

delete_visit_log(token, log_id) ==
    LET current_user == get_current_admin(token, users, now) IN
    IF current_user.status # 200
    THEN Fail("delete_visit_log", current_user.status, token, <<log_id>>, "rejected")
    ELSE IF ~\E l \in visit_logs : l.id = log_id
    THEN Fail("delete_visit_log", 404, token, <<log_id>>, "Log not found")
    ELSE /\ visit_logs' = {l \in visit_logs : l.id # log_id}
         /\ resp' = Response("delete_visit_log", 200, token, <<log_id>>,
                             Out("Log deleted", log_id))
         /\ UNCHANGED <<authVars, inviteVars, settingVars, clients, nextClient, nextLog,
                        routeVars, schedVars, reqs>>

\* Lines 1341-1346: the row of the key gets the value, or a new row is added.
update_setting(token, key, value) ==
    LET current_user == get_current_admin(token, users, now) IN
    IF current_user.status # 200
    THEN Fail("update_setting", current_user.status, token, <<key>>, "rejected")
    ELSE /\ settings' = [k \in DOMAIN settings \cup {key} |->
                            IF k = key THEN value ELSE settings[k]]
         /\ resp' = Response("update_setting", 200, token, <<key>>, Out(value, Null))
         /\ UNCHANGED <<authVars, inviteVars, clientVars, routeVars, schedVars, reqs>>

(* Routes, clients and templates with the requests served one at a time *)

ClientIds == 1..(MaxClients + 1)      \* one id more than any client gets
RouteIds == 1..(MaxRoutes + 1)
TemplateIds == 1..(MaxTemplates + 1)
ClientLists == UNION {[1..n -> ClientIds] : n \in 0..MaxList}
RouteNames == {"north", "south"}
RouteCredentials == {NoCredentials, AdminToken}

InitRoutes ==
    /\ users = <<SeedAdmin>>
    /\ tokens = {AdminToken}
    /\ now = 0
    /\ invites = {}
    /\ nextInvite = 1
    /\ registered = {}
    /\ NoData
    /\ reqs = EmptyBag
    /\ resp = NoResponse

NextRoutes ==
    \/ Deliver
    \/ Ready /\ \E token \in RouteCredentials : create_client(token, "shop", NoChange)
    \/ Ready /\ \E token \in RouteCredentials, id \in ClientIds : delete_client(token, id)
    \/ Ready /\ \E token \in RouteCredentials, id \in ClientIds : delete_location(token, id)
    \/ Ready /\ \E token \in RouteCredentials, ids \in ClientLists :
                    create_route(token, "north", ids)
    \/ Ready /\ \E token \in RouteCredentials, id \in RouteIds, name \in RouteNames,
                   ids \in ClientLists : update_route(token, id, name, ids)
    \/ Ready /\ \E token \in RouteCredentials, id \in RouteIds : delete_route(token, id)
    \/ Ready /\ \E token \in RouteCredentials, ids \in ClientLists :
                    create_route_template(token, "north", ids)
    \/ Ready /\ \E token \in RouteCredentials, id \in TemplateIds :
                    create_route_from_template(token, id)

SpecRoutes == InitRoutes /\ [][NextRoutes]_vars

----------------------------------------------------------------------------
(* Clients, locations, visit logs and the routes they are on, with the
   requests served one at a time *)

ClientNames == {"shop", "cafe"}
ClientNotes == {NoChange, "key at the desk"}

NextClients ==
    \/ Deliver
    \/ Ready /\ \E token \in RouteCredentials : get_clients(token)
    \/ Ready /\ \E token \in RouteCredentials : get_locations(token)
    \/ Ready /\ \E token \in RouteCredentials, notes \in ClientNotes :
                    create_client(token, "shop", notes)
    \/ Ready /\ \E token \in RouteCredentials, notes \in ClientNotes :
                    create_location(token, "shop", notes)
    \/ Ready /\ \E token \in RouteCredentials, id \in ClientIds : get_client(token, id)
    \/ Ready /\ \E token \in RouteCredentials, id \in ClientIds : get_location(token, id)
    \/ Ready /\ \E token \in RouteCredentials, id \in ClientIds, name \in ClientNames,
                   notes \in ClientNotes : update_client(token, id, name, notes)
    \/ Ready /\ \E token \in RouteCredentials, id \in ClientIds, name \in ClientNames,
                   notes \in ClientNotes : update_location(token, id, name, notes)
    \/ Ready /\ \E token \in RouteCredentials, id \in ClientIds : delete_client(token, id)
    \/ Ready /\ \E token \in RouteCredentials, id \in ClientIds : delete_location(token, id)
    \/ Ready /\ \E token \in RouteCredentials, id \in ClientIds :
                    get_client_visit_logs(token, id)
    \/ Ready /\ \E token \in RouteCredentials, id \in ClientIds : get_visit_logs(token, id)
    \/ Ready /\ \E token \in RouteCredentials, id \in ClientIds :
                    create_client_visit_log(token, id)
    \/ Ready /\ \E token \in RouteCredentials, id \in ClientIds : create_visit_log(token, id)
    \/ Ready /\ \E token \in RouteCredentials, ids \in ClientLists :
                    create_route(token, "north", ids)

SpecClients == InitRoutes /\ [][NextClients]_vars

----------------------------------------------------------------------------
(* Route assignments: src/app/main.py 555-590, 636-649, 694-735 *)

\* Date strings of the requests, and datetime.strptime(s, "%Y-%m-%d").date():
\* the day of January 2026, or the ValueError.  The format accepts a month
\* and a day without the leading zero.
DateStrings == {"2026-01-05", "2026-1-5", "2026-01-06", "2026-01-07", "soon"}

strptime(s) ==
    CASE s = "2026-01-05" -> [ok |-> TRUE, date |-> 5]
      [] s = "2026-1-5" -> [ok |-> TRUE, date |-> 5]
      [] s = "2026-01-06" -> [ok |-> TRUE, date |-> 6]
      [] s = "2026-01-07" -> [ok |-> TRUE, date |-> 7]
      [] OTHER -> [ok |-> FALSE, date |-> 0]

\* RouteAssignment(route_id=, user_id=, assigned_date=): status defaults to 'pending'
NewAssignment(route_id, user_id, assigned_date) ==
    [route_id |-> route_id, user_id |-> user_id, assigned_date |-> assigned_date,
     status |-> "pending"]

SameTriple(row, route_id, user_id, assigned_date) ==
    row.route_id = route_id /\ row.user_id = user_id /\ row.assigned_date = assigned_date

RouteExists(route_id) == \E r \in routes : r.id = route_id
ActiveUser(user_id) == user_id \in DOMAIN users /\ users[user_id].is_active

RECURSIVE SeqToBag(_)
SeqToBag(rows) ==
    IF rows = <<>> THEN EmptyBag ELSE SetToBag({Head(rows)}) (+) SeqToBag(Tail(rows))

\* assign_route without the check of lines 573-580
assign_query_unchecked(token, route_id, user_id, date_string) ==
    LET current_user == get_current_admin(token, users, now)
        parsed == strptime(date_string)
    IN  IF current_user.status # 200
        THEN [status |-> current_user.status, detail |-> "rejected", date |-> 0]
        ELSE IF ~RouteExists(route_id)
        THEN [status |-> 404, detail |-> "Route not found", date |-> 0]
        ELSE IF ~ActiveUser(user_id)
        THEN [status |-> 404, detail |-> "User not found", date |-> 0]
        ELSE IF ~parsed.ok
        THEN [status |-> 500, detail |-> "Internal Server Error", date |-> 0]
        ELSE [status |-> 200, detail |-> "ok", date |-> parsed.date]

\* Lines 563-580: the guard and the queries of assign_route.
assign_query(token, route_id, user_id, date_string) ==
    LET current_user == get_current_admin(token, users, now)
        parsed == strptime(date_string)
    IN  IF current_user.status # 200
        THEN [status |-> current_user.status, detail |-> "rejected", date |-> 0]
        ELSE IF ~RouteExists(route_id)
        THEN [status |-> 404, detail |-> "Route not found", date |-> 0]
        ELSE IF ~ActiveUser(user_id)
        THEN [status |-> 404, detail |-> "User not found", date |-> 0]
        ELSE IF ~parsed.ok
        THEN [status |-> 500, detail |-> "Internal Server Error", date |-> 0]
        ELSE IF \E row \in BagToSet(assignments) :
                    SameTriple(row, route_id, user_id, parsed.date)
        THEN [status |-> 400,
              detail |-> "Route already assigned to this user for this date", date |-> 0]
        ELSE [status |-> 200, detail |-> "ok", date |-> parsed.date]

\* Lines 582-590: the INSERT and the commit.  The table has no unique index
\* on (route_id, user_id, assigned_date): the INSERT never fails on a duplicate.
AssignFinish(token, route_id, user_id, date_string, date) ==
    /\ BagCardinality(assignments) < MaxAssign
    /\ assignments' = assignments (+) SetToBag({NewAssignment(route_id, user_id, date)})
    /\ resp' = Response("assign_route", 200, token, <<route_id, user_id, date_string>>,
                        Out("assigned", Null))
    /\ UNCHANGED <<authVars, inviteVars, settingVars, clientVars, routeVars>>

assign_route(token, route_id, user_id, date_string) ==
    LET q == assign_query(token, route_id, user_id, date_string) IN
    IF q.status # 200
    THEN Fail("assign_route", q.status, token, <<route_id, user_id, date_string>>, q.detail)
    ELSE /\ AssignFinish(token, route_id, user_id, date_string, q.date)
         /\ UNCHANGED reqs

assign_route_begin(token, route_id, user_id, date_string) ==
    LET q == assign_query(token, route_id, user_id, date_string) IN
    /\ CanAccept
    /\ IF q.status # 200
       THEN Fail("assign_route", q.status, token, <<route_id, user_id, date_string>>,
                 q.detail)
       ELSE /\ Accept([op |-> "assign_route", tok |-> token, route_id |-> route_id,
                       user_id |-> user_id, date_string |-> date_string, date |-> q.date])
            /\ UNCHANGED <<authVars, inviteVars, dataVars, resp>>

assign_route_commit(r) ==
    /\ r.op = "assign_route"
    /\ AssignFinish(r.tok, r.route_id, r.user_id, r.date_string, r.date)
    /\ Finish(r)

delete_assignment(token, row) ==
    LET current_user == get_current_admin(token, users, now) IN
    IF current_user.status # 200
    THEN Fail("delete_assignment", current_user.status, token, <<row>>, "rejected")
    ELSE IF ~BagIn(row, assignments)
    THEN Fail("delete_assignment", 404, token, <<row>>, "Assignment not found")
    ELSE /\ assignments' = assignments (-) SetToBag({row})
         /\ resp' = Response("delete_assignment", 200, token, <<row>>,
                             Out("Assignment deleted", Null))
         /\ UNCHANGED <<authVars, inviteVars, settingVars, clientVars, routeVars, reqs>>

\* Lines 709-732: the loop of batch_assign_routes over the dates left, given
\* the rows of the table and the rows added so far.  The query of an iteration
\* sees the rows added by the earlier ones when the session autoflushes.
RECURSIVE batch_loop(_, _, _, _, _)
batch_loop(dates, route_id, user_id, autoflush, acc) ==
    IF dates = <<>> THEN acc
    ELSE LET parsed == strptime(Head(dates)) IN
         IF ~parsed.ok THEN [acc EXCEPT !.status = 500]
         ELSE LET existing ==
                      \/ \E row \in BagToSet(assignments) :
                             SameTriple(row, route_id, user_id, parsed.date)
                      \/ /\ autoflush
                         /\ \E i \in 1..Len(acc.added) :
                                SameTriple(acc.added[i], route_id, user_id, parsed.date)
              IN  IF existing
                  THEN batch_loop(Tail(dates), route_id, user_id, autoflush,
                                  [acc EXCEPT !.skipped = @ + 1])
                  ELSE batch_loop(Tail(dates), route_id, user_id, autoflush,
                                  [acc EXCEPT !.created = @ + 1,
                                              !.added = Append(@, NewAssignment(
                                                            route_id, user_id, parsed.date))])

\* batch_assign_routes failing the batch on the first date already assigned
batch_query_strict(token, route_id, user_id, dates, autoflush) ==
    LET current_user == get_current_admin(token, users, now)
        start == [status |-> 200, detail |-> "ok", added |-> <<>>, created |-> 0,
                  skipped |-> 0]
        done == batch_loop(dates, route_id, user_id, autoflush, start)
    IN  IF current_user.status # 200
        THEN [start EXCEPT !.status = current_user.status, !.detail = "rejected"]
        ELSE IF ~RouteExists(route_id)
        THEN [start EXCEPT !.status = 404, !.detail = "Route not found"]
        ELSE IF ~ActiveUser(user_id)
        THEN [start EXCEPT !.status = 404, !.detail = "User not found"]
        ELSE IF done.skipped > 0
        THEN [start EXCEPT !.status = 400, !.detail = "duplicate"]
        ELSE done

\* Lines 701-732: the guard, the queries and the loop.
batch_query(token, route_id, user_id, dates, autoflush) ==
    LET current_user == get_current_admin(token, users, now)
        start == [status |-> 200, detail |-> "ok", added |-> <<>>, created |-> 0,
                  skipped |-> 0]
    IN  IF current_user.status # 200
        THEN [start EXCEPT !.status = current_user.status, !.detail = "rejected"]
        ELSE IF ~RouteExists(route_id)
        THEN [start EXCEPT !.status = 404, !.detail = "Route not found"]
        ELSE IF ~ActiveUser(user_id)
        THEN [start EXCEPT !.status = 404, !.detail = "User not found"]
        ELSE batch_loop(dates, route_id, user_id, autoflush, start)

BatchOut(created, skipped) ==
    [detail |-> "Created assignments, skipped duplicates", id |-> Null,
     created |-> created, skipped |-> skipped]

\* Lines 734-735: the commit of the rows added, and the counts returned.
BatchFinish(token, route_id, user_id, dates, q) ==
    /\ BagCardinality(assignments) + Len(q.added) <= MaxAssign
    /\ assignments' = assignments (+) SeqToBag(q.added)
    /\ resp' = Response("batch_assign_routes", 200, token, <<route_id, user_id, dates>>,
                        BatchOut(q.created, q.skipped))
    /\ UNCHANGED <<authVars, inviteVars, settingVars, clientVars, routeVars>>

\* The session of a request that ends without db.commit() is closed by get_db
\* (app/database.py), and the rows it added are discarded with it.
uncommitted_discarded(table, pending) == table

\* Lines 701-713: the request ends in an exception; the rows the loop added
\* before it were never committed.
BatchFail(token, route_id, user_id, dates, q) ==
    /\ assignments' = uncommitted_discarded(assignments, SeqToBag(q.added))
    /\ resp' = Response("batch_assign_routes", q.status, token,
                        <<route_id, user_id, dates>>, BatchOut(0, 0))
    /\ UNCHANGED <<authVars, inviteVars, settingVars, clientVars, routeVars, reqs>>

\* batch_assign_routes committing every row as the loop adds it
batch_assign_routes_commit_each(token, route_id, user_id, dates, autoflush) ==
    LET q == batch_query(token, route_id, user_id, dates, autoflush) IN
    IF q.status # 200
    THEN /\ BagCardinality(assignments) + Len(q.added) <= MaxAssign
         /\ assignments' = assignments (+) SeqToBag(q.added)
         /\ resp' = Response("batch_assign_routes", q.status, token,
                             <<route_id, user_id, dates>>, BatchOut(0, 0))
         /\ UNCHANGED <<authVars, inviteVars, settingVars, clientVars, routeVars, reqs>>
    ELSE /\ BatchFinish(token, route_id, user_id, dates, q)
         /\ UNCHANGED reqs

batch_assign_routes(token, route_id, user_id, dates, autoflush) ==
    LET q == batch_query(token, route_id, user_id, dates, autoflush) IN
    IF q.status # 200
    THEN BatchFail(token, route_id, user_id, dates, q)
    ELSE /\ BatchFinish(token, route_id, user_id, dates, q)
         /\ UNCHANGED reqs

batch_assign_routes_begin(token, route_id, user_id, dates, autoflush) ==
    LET q == batch_query(token, route_id, user_id, dates, autoflush) IN
    /\ CanAccept
    /\ IF q.status # 200
       THEN BatchFail(token, route_id, user_id, dates, q)
       ELSE /\ Accept([op |-> "batch_assign_routes", tok |-> token, route_id |-> route_id,
                       user_id |-> user_id, dates |-> dates, q |-> q])
            /\ UNCHANGED <<authVars, inviteVars, dataVars, resp>>

batch_assign_routes_commit(r) ==
    /\ r.op = "batch_assign_routes"
    /\ BatchFinish(r.tok, r.route_id, r.user_id, r.dates, r.q)
    /\ Finish(r)

(* The schedule: a route, an active member and a deactivated one *)

Crew == <<SeedAdmin, NewUser("a@x", "pw", "a", "member"),
          [NewUser("b@x", "pw", "b", "member") EXCEPT !.is_active = FALSE]>>

AssigneeIds == 2..(Len(Crew) + 1)       \* active, deactivated, no such user
ScheduleCredentials == {NoCredentials, AdminToken}
DateLists == UNION {[1..n -> DateStrings] : n \in 1..MaxDates}
DistinctDateLists ==
    {dates \in UNION {[1..n -> DateStrings] : n \in 1..MaxRaceDates} :
        \A i, j \in DOMAIN dates : i # j => strptime(dates[i]).date # strptime(dates[j]).date}
AssignmentRows ==
    BagToSet(assignments) \cup {NewAssignment(MaxRoutes + 1, 2, 5)}

InitSchedule ==
    /\ users = Crew
    /\ tokens = {AdminToken}
    /\ now = 0
    /\ invites = {}
    /\ nextInvite = 1
    /\ registered = {}
    /\ clients = {}
    /\ nextClient = 1
    /\ visit_logs = {}
    /\ nextLog = 1
    /\ settings = defaults
    /\ routes = {[id |-> 1, name |-> "north"]}
    /\ nextRoute = 2
    /\ route_clients = EmptyBag
    /\ templates = {}
    /\ nextTemplate = 1
    /\ assignments = EmptyBag
    /\ reqs = EmptyBag
    /\ resp = NoResponse

(* Requests served concurrently: the queries of one may run between the
   queries and the commit of another *)
NextSchedule ==
    \/ Deliver
    \/ Ready /\ \E token \in ScheduleCredentials, route_id \in 1..2, user_id \in AssigneeIds,
                   date_string \in DateStrings :
                    assign_route_begin(token, route_id, user_id, date_string)
    \/ Ready /\ \E r \in InFlight : assign_route_commit(r)
    \/ Ready /\ \E token \in ScheduleCredentials, route_id \in 1..2, user_id \in AssigneeIds,
                   dates \in DistinctDateLists, autoflush \in BOOLEAN :
                    batch_assign_routes_begin(token, route_id, user_id, dates, autoflush)
    \/ Ready /\ \E r \in InFlight : batch_assign_routes_commit(r)
    \/ Ready /\ \E token \in ScheduleCredentials, row \in AssignmentRows :
                    delete_assignment(token, row)

SpecSchedule == InitSchedule /\ [][NextSchedule]_vars

(* Requests served one at a time *)
NextScheduleSeq ==
    \/ Deliver
    \/ Ready /\ \E token \in ScheduleCredentials, route_id \in 1..2, user_id \in AssigneeIds,
                   date_string \in DateStrings :
                    assign_route(token, route_id, user_id, date_string)
    \/ Ready /\ \E token \in ScheduleCredentials, route_id \in 1..2, user_id \in AssigneeIds,
                   dates \in DateLists, autoflush \in BOOLEAN :
                    batch_assign_routes(token, route_id, user_id, dates, autoflush)
    \/ Ready /\ \E token \in ScheduleCredentials, row \in AssignmentRows :
                    delete_assignment(token, row)

SpecScheduleSeq == InitSchedule /\ [][NextScheduleSeq]_vars

----------------------------------------------------------------------------
(* Assignment status and the schedule: src/app/main.py 612-633, 652-691 *)

AssignmentStatuses == {"pending", "in_progress", "completed"}

\* update_assignment_status refusing to move a status backwards
update_assignment_status_forward_only(token, row, status) ==
    LET current_user == get_current_user(token, users, now)
        arg == <<row, status>>
        rank(x) == CASE x = "pending" -> 0 [] x = "in_progress" -> 1 [] OTHER -> 2
    IN  IF current_user.status # 200
        THEN Fail("update_assignment_status", current_user.status, token, arg, "rejected")
        ELSE IF ~BagIn(row, assignments)
        THEN Fail("update_assignment_status", 404, token, arg, "Assignment not found")
        ELSE IF row.user_id # current_user.id /\ users[current_user.id].role # "admin"
        THEN Fail("update_assignment_status", 403, token, arg, "Not authorized")
        ELSE IF status \notin AssignmentStatuses \/ rank(status) < rank(row.status)
        THEN Fail("update_assignment_status", 400, token, arg, "Invalid status")
        ELSE /\ assignments' = (assignments (-) SetToBag({row}))
                               (+) SetToBag({[row EXCEPT !.status = status]})
             /\ resp' = Response("update_assignment_status", 200, token, arg,
                                 Out("Status updated", Null))
             /\ UNCHANGED <<authVars, inviteVars, settingVars, clientVars, routeVars, reqs>>

update_assignment_status(token, row, status) ==
    LET current_user == get_current_user(token, users, now)
        arg == <<row, status>>
    IN  IF current_user.status # 200
        THEN Fail("update_assignment_status", current_user.status, token, arg, "rejected")
        ELSE IF ~BagIn(row, assignments)
        THEN Fail("update_assignment_status", 404, token, arg, "Assignment not found")
        ELSE IF row.user_id # current_user.id /\ users[current_user.id].role # "admin"
        THEN Fail("update_assignment_status", 403, token, arg, "Not authorized")
        ELSE IF status \notin AssignmentStatuses
        THEN Fail("update_assignment_status", 400, token, arg, "Invalid status")
        ELSE /\ assignments' = (assignments (-) SetToBag({row}))
                               (+) SetToBag({[row EXCEPT !.status = status]})
             /\ resp' = Response("update_assignment_status", 200, token, arg,
                                 Out("Status updated", Null))
             /\ UNCHANGED <<authVars, inviteVars, settingVars, clientVars, routeVars, reqs>>

\* An Optional[int] query parameter: <<>> when left out, <<n>> when given.
\* `elif user_id:` takes the branch when the parameter is given and not 0.
Truthy(optional) == optional # <<>> /\ optional[1] # 0

\* Lines 661-676: the rows the query of get_schedule selects.
get_schedule_query(token, start_date, end_date, user_id) ==
    LET current_user == get_current_user(token, users, now)
        start == strptime(start_date)
        end == strptime(end_date)
        in_range == {a \in BagToSet(assignments) :
                        a.assigned_date >= start.date /\ a.assigned_date <= end.date}
        selected ==
            IF users[current_user.id].role # "admin"
            THEN {a \in in_range : a.user_id = current_user.id}
            ELSE IF Truthy(user_id)
            THEN {a \in in_range : a.user_id = user_id[1]}
            ELSE in_range
    IN  IF current_user.status # 200
        THEN [status |-> current_user.status, rows |-> EmptyBag]
        ELSE IF ~start.ok \/ ~end.ok
        THEN [status |-> 500, rows |-> EmptyBag]
        ELSE [status |-> 200, rows |-> [a \in selected |-> assignments[a]]]

get_schedule(token, start_date, end_date, user_id) ==
    LET q == get_schedule_query(token, start_date, end_date, user_id) IN
    /\ resp' = Response("get_schedule", q.status, token, <<start_date, end_date, user_id>>,
                        [detail |-> "schedule", id |-> Null, rows |-> q.rows])
    /\ UNCHANGED <<authVars, inviteVars, dataVars, reqs>>

(* The calendar: two routes, assignments to the admin and to a member *)

MemberToken == create_access_token(str(2), 0)
CalendarCredentials == {NoCredentials, AdminToken, MemberToken}
CalendarDates == {"2026-01-05", "2026-01-06"}
CalendarRows ==
    BagToSet(assignments) \cup {NewAssignment(1, 3, 5)}
StatusInputs == AssignmentStatuses \cup {"done"}
UserFilters == {<<>>} \cup {<<u>> : u \in 0..2}

InitCalendar ==
    /\ users = Crew
    /\ tokens = {AdminToken, MemberToken}
    /\ now = 0
    /\ invites = {}
    /\ nextInvite = 1
    /\ registered = {}
    /\ clients = {NewClient(1, "shop", NoChange)}
    /\ nextClient = 2
    /\ visit_logs = {NewVisitLog(1, 1, 2, 0)}
    /\ nextLog = 2
    /\ settings = defaults
    /\ routes = {[id |-> 1, name |-> "north"], [id |-> 2, name |-> "north"]}
    /\ nextRoute = 3
    /\ route_clients = SetToBag({[route_id |-> 1, client_id |-> 1, position |-> 0],
                                 [route_id |-> 2, client_id |-> 1, position |-> 0]})
    /\ templates = {}
    /\ nextTemplate = 1
    /\ assignments = EmptyBag
    /\ reqs = EmptyBag
    /\ resp = NoResponse

NextCalendar ==
    \/ Deliver
    \/ Ready /\ \E token \in CalendarCredentials, route_id \in 1..3, user_id \in 1..3,
                   date_string \in CalendarDates :
                    assign_route(token, route_id, user_id, date_string)
    \/ Ready /\ \E token \in CalendarCredentials, row \in CalendarRows,
                   status \in StatusInputs : update_assignment_status(token, row, status)
    \/ Ready /\ \E token \in CalendarCredentials, start_date \in DateStrings,
                   end_date \in DateStrings, user_id \in UserFilters :
                    get_schedule(token, start_date, end_date, user_id)
    \/ Ready /\ \E token \in CalendarCredentials, row \in CalendarRows :
                    delete_assignment(token, row)
    \/ Ready /\ \E token \in CalendarCredentials, route_id \in 1..3 :
                    delete_route(token, route_id)

SpecCalendar == InitCalendar /\ [][NextCalendar]_vars

----------------------------------------------------------------------------
(* Service status: src/app/main.py 335-347, 983-1033 *)

\* A value as json.loads returns it: an integer, or something that is not a
\* number (a string, null).
IntValue(n) == [int |-> TRUE, n |-> n]
NonInt == [int |-> FALSE, n |-> 0]

\* timedelta.days of the time from last_serviced to clock, both in hours
days_between(last_serviced, clock) == (clock - last_serviced) \div HoursPerDay

\* compute_service_status comparing with < where the code has <=
compute_service_status_exclusive(last_serviced, clock, green_days, orange_days) ==
    IF last_serviced = <<>> THEN "never"
    ELSE LET days_ago == days_between(last_serviced[1], clock) IN
         IF ~green_days.int THEN "TypeError"
         ELSE IF days_ago < green_days.n THEN "green"
         ELSE IF ~orange_days.int THEN "TypeError"
         ELSE IF days_ago < orange_days.n THEN "orange"
         ELSE "red"

\* Lines 335-347.  last_serviced is <<>> for None and <<hours>> for a time;
\* clock is datetime.now() in hours.  Comparing an integer with a value that
\* is not a number raises TypeError.
compute_service_status(last_serviced, clock, green_days, orange_days) ==
    IF last_serviced = <<>> THEN "never"
    ELSE LET days_ago == days_between(last_serviced[1], clock) IN
         IF ~green_days.int THEN "TypeError"
         ELSE IF days_ago <= green_days.n THEN "green"
         ELSE IF ~orange_days.int THEN "TypeError"
         ELSE IF days_ago <= orange_days.n THEN "orange"
         ELSE "red"

\* The function called with a last visit (or none), the time d whole days and
\* some hours after it, and two integer thresholds.
compute_service_status_call(visited, d, hours, green_days, orange_days) ==
    LET last_serviced == IF visited THEN <<HoursPerDay>> ELSE <<>>
        clock == HoursPerDay + d * HoursPerDay + hours
    IN  /\ resp' = Response("compute_service_status", 200, NoCredentials,
                            <<visited, d, green_days, orange_days>>,
                            Out(compute_service_status(last_serviced, clock,
                                                       IntValue(green_days),
                                                       IntValue(orange_days)), hours))
        /\ UNCHANGED <<authVars, inviteVars, dataVars, reqs>>

\* The values of the setting service_thresholds that requests store.
ThresholdValues ==
    {"{\"green_days\": 7, \"orange_days\": 14}",
     "{\"green_days\": 0, \"orange_days\": 6}",
     "{\"green_days\": 6}",
     "not json",
     "[7, 14]",
     "{\"green_days\": \"7\", \"orange_days\": 14}",
     "{\"green_days\": 7, \"orange_days\": null}"}

\* json.loads of those values: ok is FALSE when it raises, object is TRUE when
\* the value is a dict, items are its keys and values.
json_loads_value(value) ==
    CASE value = "{\"green_days\": 7, \"orange_days\": 14}" ->
            [ok |-> TRUE, object |-> TRUE,
             items |-> [k \in {"green_days", "orange_days"} |->
                           IF k = "green_days" THEN IntValue(7) ELSE IntValue(14)]]
      [] value = "{\"green_days\": 0, \"orange_days\": 6}" ->
            [ok |-> TRUE, object |-> TRUE,
             items |-> [k \in {"green_days", "orange_days"} |->
                           IF k = "green_days" THEN IntValue(0) ELSE IntValue(6)]]
      [] value = "{\"green_days\": 6}" ->
            [ok |-> TRUE, object |-> TRUE, items |-> [k \in {"green_days"} |-> IntValue(6)]]
      [] value = "[7, 14]" ->
            [ok |-> TRUE, object |-> FALSE, items |-> [k \in {} |-> NonInt]]
      [] value = "{\"green_days\": \"7\", \"orange_days\": 14}" ->
            [ok |-> TRUE, object |-> TRUE,
             items |-> [k \in {"green_days", "orange_days"} |->
                           IF k = "green_days" THEN NonInt ELSE IntValue(14)]]
      [] value = "{\"green_days\": 7, \"orange_days\": null}" ->
            [ok |-> TRUE, object |-> TRUE,
             items |-> [k \in {"green_days", "orange_days"} |->
                           IF k = "green_days" THEN IntValue(7) ELSE NonInt]]
      [] OTHER -> [ok |-> FALSE, object |-> FALSE, items |-> [k \in {} |-> NonInt]]

\* dict.get(key, default)
dict_get(items, key, default) ==
    IF key \in DOMAIN items THEN items[key] ELSE IntValue(default)

\* Lines 1004-1013: the thresholds from the setting, or 7 and 14 when the row
\* is missing or reading it raises.
load_thresholds(rows) ==
    LET fallback == [green_days |-> IntValue(7), orange_days |-> IntValue(14)] IN
    IF "service_thresholds" \notin DOMAIN rows THEN fallback
    ELSE LET thresholds == json_loads_value(rows["service_thresholds"]) IN
         IF ~thresholds.ok \/ ~thresholds.object THEN fallback
         ELSE [green_days |-> dict_get(thresholds.items, "green_days", 7),
               orange_days |-> dict_get(thresholds.items, "orange_days", 14)]

\* One tick of the clock in hours.
Hours(ticks) == ticks * ACCESS_TOKEN_EXPIRE_HOURS

\* Lines 989-1001: func.max(created_at) of the client's visit logs, None
\* when it has none.
latest_visit(client_id) ==
    LET times == {l.created_at : l \in {v \in visit_logs : v.client_id = client_id}} IN
    IF times = {} THEN <<>>
    ELSE <<Hours(CHOOSE t \in times : \A u \in times : u <= t)>>

\* Lines 983-1033.  compute_service_status is called after the try block, so
\* an exception it raises ends the request with status 500.
get_clients_with_status(token) ==
    LET current_user == get_current_user(token, users, now)
        thresholds == load_thresholds(settings)
        response == {[id |-> c.id,
                      service_status |->
                          compute_service_status(latest_visit(c.id), Hours(now),
                                                 thresholds.green_days,
                                                 thresholds.orange_days)] : c \in clients}
    IN  IF current_user.status # 200
        THEN Fail("get_clients_with_status", current_user.status, token, <<>>, "rejected")
        ELSE IF \E row \in response : row.service_status = "TypeError"
        THEN /\ resp' = Response("get_clients_with_status", 500, token, <<>>,
                                 [detail |-> "Internal Server Error", id |-> Null,
                                  rows |-> {}])
             /\ UNCHANGED <<authVars, inviteVars, dataVars, reqs>>
        ELSE /\ resp' = Response("get_clients_with_status", 200, token, <<>>,
                                 [detail |-> "clients", id |-> Null, rows |-> response])
             /\ UNCHANGED <<authVars, inviteVars, dataVars, reqs>>

(* compute_service_status on its own *)

MaxDays == 21
DayInputs == (0 - 1)..MaxDays
HourInputs == {0, HoursPerDay - 1}
ThresholdPairs == {<<7, 14>>, <<0, 6>>, <<14, 7>>, <<3, 3>>}

NextStatus ==
    \/ Deliver
    \/ Ready /\ \E visited \in BOOLEAN, d \in DayInputs, hours \in HourInputs,
                   pair \in ThresholdPairs :
                    compute_service_status_call(visited, d, hours, pair[1], pair[2])

SpecStatus == InitCalendar /\ [][NextStatus]_vars

(* The status of the clients while the thresholds are rewritten *)

InitThresholds ==
    /\ users = <<SeedAdmin>>
    /\ tokens = {AdminToken}
    /\ now = 0
    /\ invites = {}
    /\ nextInvite = 1
    /\ registered = {}
    /\ clients = {NewClient(1, "shop", NoChange), NewClient(2, "cafe", NoChange)}
    /\ nextClient = 3
    /\ visit_logs = {}
    /\ nextLog = 1
    /\ settings = defaults
    /\ routes = {}
    /\ nextRoute = 1
    /\ route_clients = EmptyBag
    /\ templates = {}
    /\ nextTemplate = 1
    /\ assignments = EmptyBag
    /\ reqs = EmptyBag
    /\ resp = NoResponse

NextThresholds ==
    \/ Deliver
    \/ Ready /\ Pass
    \/ Ready /\ \E token \in {NoCredentials, AdminToken}, value \in ThresholdValues :
                    update_setting(token, "service_thresholds", value)
    \/ Ready /\ \E token \in {NoCredentials, AdminToken}, id \in 1..2 :
                    create_client_visit_log(token, id)
    \/ Ready /\ \E token \in {NoCredentials, AdminToken}, id \in 1..MaxLogs :
                    delete_visit_log(token, id)
    \/ Ready /\ \E token \in {NoCredentials, AdminToken} : get_clients_with_status(token)

SpecThresholds == InitThresholds /\ [][NextThresholds]_vars

(* The PUT handlers on one client, one member, one route and one template *)

UpdateBodies ==
    [name : {NoChange, "renamed"}, role : {NoChange, "admin"}, is_active : {NoChange, "false"}]
UpdateLists == {<<>>, <<1>>, <<2, 1>>}
UpdateTargets == 2..3

InitUpdates ==
    /\ users = <<SeedAdmin, NewUser("a@x", "pw", "a", "member")>>
    /\ tokens = {AdminToken, MemberToken}
    /\ now = 0
    /\ invites = {}
    /\ nextInvite = 1
    /\ registered = {}
    /\ clients = {NewClient(1, "shop", "key at the desk")}
    /\ nextClient = 2
    /\ visit_logs = {}
    /\ nextLog = 1
    /\ settings = defaults
    /\ routes = {[id |-> 1, name |-> "north"]}
    /\ nextRoute = 2
    /\ route_clients = SetToBag({[route_id |-> 1, client_id |-> 1, position |-> 0]})
    /\ templates = {[id |-> 1, name |-> "north", client_ids_json |-> json_dumps(<<1>>),
                     created_by |-> 1]}
    /\ nextTemplate = 2
    /\ assignments = EmptyBag
    /\ reqs = EmptyBag
    /\ resp = NoResponse

NextUpdates ==
    \/ Deliver
    \/ Ready /\ \E token \in CalendarCredentials, id \in 1..2, name \in ClientNames,
                   notes \in ClientNotes : update_client(token, id, name, notes)
    \/ Ready /\ \E token \in CalendarCredentials, id \in 1..2, name \in ClientNames,
                   notes \in ClientNotes : update_location(token, id, name, notes)
    \/ Ready /\ \E token \in CalendarCredentials, id \in UpdateTargets, body \in UpdateBodies :
                    update_user(token, id, body.name, body.role, body.is_active)
    \/ Ready /\ \E token \in CalendarCredentials, id \in 1..2, name \in RouteNames,
                   client_ids \in UpdateLists : update_route(token, id, name, client_ids)
    \/ Ready /\ \E token \in CalendarCredentials, id \in 1..2, name \in RouteNames,
                   client_ids \in UpdateLists :
                    update_route_template(token, id, name, client_ids)

SpecUpdates == InitUpdates /\ [][NextUpdates]_vars

(* Visit logs written and deleted while clients change and time passes *)

NextLogs ==
    \/ Deliver
    \/ Ready /\ Pass
    \/ Ready /\ \E token \in RouteCredentials, id \in ClientIds :
                    create_client_visit_log(token, id)
    \/ Ready /\ \E token \in RouteCredentials, id \in ClientIds : create_visit_log(token, id)
    \/ Ready /\ \E token \in RouteCredentials, id \in 1..(MaxLogs + 1) :
                    delete_visit_log(token, id)
    \/ Ready /\ \E token \in RouteCredentials, id \in ClientIds, name \in ClientNames,
                   notes \in ClientNotes : update_client(token, id, name, notes)
    \/ Ready /\ \E token \in RouteCredentials, id \in ClientIds : delete_client(token, id)
    \/ Ready /\ \E token \in RouteCredentials, id \in ClientIds : delete_location(token, id)
    \/ Ready /\ \E token \in RouteCredentials, id \in ClientIds :
                    get_client_visit_logs(token, id)

SpecLogs == InitThresholds /\ [][NextLogs]_vars

(* Templates and the routes made from them, by the admin and by a member *)

TemplateLists == {<<>>, <<1>>, <<2, 1>>, <<1, 3>>, <<1, 2>>}

InitTemplates ==
    /\ users = <<SeedAdmin, NewUser("a@x", "pw", "a", "member")>>
    /\ tokens = {AdminToken, MemberToken}
    /\ now = 0
    /\ invites = {}
    /\ nextInvite = 1
    /\ registered = {}
    /\ clients = {NewClient(1, "shop", NoChange), NewClient(2, "cafe", NoChange)}
    /\ nextClient = 3
    /\ visit_logs = {}
    /\ nextLog = 1
    /\ settings = defaults
    /\ routes = {}
    /\ nextRoute = 1
    /\ route_clients = EmptyBag
    /\ templates = {}
    /\ nextTemplate = 1
    /\ assignments = EmptyBag
    /\ reqs = EmptyBag
    /\ resp = NoResponse

NextTemplates ==
    \/ Deliver
    \/ Ready /\ \E token \in CalendarCredentials, ids \in TemplateLists :
                    create_route(token, "north", ids)
    \/ Ready /\ \E token \in CalendarCredentials, id \in RouteIds, name \in {NoChange, "kept"} :
                    save_route_as_template(token, id, name)
    \/ Ready /\ \E token \in CalendarCredentials, ids \in TemplateLists :
                    create_route_template(token, "north", ids)
    \/ Ready /\ \E token \in CalendarCredentials, id \in TemplateIds, ids \in UpdateLists :
                    update_route_template(token, id, "south", ids)
    \/ Ready /\ \E token \in CalendarCredentials, id \in TemplateIds :
                    delete_route_template(token, id)
    \/ Ready /\ \E token \in CalendarCredentials, id \in TemplateIds :
                    create_route_from_template(token, id)
    \/ Ready /\ \E token \in CalendarCredentials, id \in 1..2 : delete_client(token, id)

SpecTemplates == InitTemplates /\ [][NextTemplates]_vars

(* Requests that end in an error, among requests that succeed *)

InitErrors ==
    /\ users = <<SeedAdmin, NewUser("a@x", "pw", "a", "member")>>
    /\ tokens = {AdminToken, MemberToken}
    /\ now = 0
    /\ invites = {[id |-> 1, code |-> 1, created_by |-> 1, used_by |-> Null,
                   expires_at |-> 1]}
    /\ nextInvite = 2
    /\ registered = {}
    /\ clients = {NewClient(1, "shop", NoChange)}
    /\ nextClient = 2
    /\ visit_logs = {}
    /\ nextLog = 1
    /\ settings = defaults
    /\ routes = {[id |-> 1, name |-> "north"]}
    /\ nextRoute = 2
    /\ route_clients = SetToBag({[route_id |-> 1, client_id |-> 1, position |-> 0]})
    /\ templates = {[id |-> 1, name |-> "north", client_ids_json |-> json_dumps(<<1>>),
                     created_by |-> 1]}
    /\ nextTemplate = 2
    /\ assignments = EmptyBag
    /\ reqs = EmptyBag
    /\ resp = NoResponse

ErrorDateLists == {<<"2026-01-05">>, <<"2026-01-06", "soon">>, <<"soon">>}

NextErrors ==
    \/ Deliver
    \/ Ready /\ \E email \in Emails, code \in CodeInputs : register_begin(email, code)
    \/ Ready /\ \E r \in InFlight : register_commit(r)
    \/ Ready /\ \E token \in RouteCredentials, id \in 1..MaxInvites :
                    delete_invite_code(token, id)
    \/ Ready /\ \E token \in RouteCredentials, route_id \in 1..2, dates \in ErrorDateLists,
                   autoflush \in BOOLEAN :
                    batch_assign_routes(token, route_id, 2, dates, autoflush)
    \/ Ready /\ \E token \in RouteCredentials, id \in 1..2, client_ids \in UpdateLists :
                    update_route(token, id, "south", client_ids)
    \/ Ready /\ \E token \in CalendarCredentials, id \in 1..2, client_ids \in UpdateLists :
                    update_route_template(token, id, "south", client_ids)
    \/ Ready /\ \E token \in RouteCredentials, id \in 1..2 :
                    create_client_visit_log(token, id)
    \/ Ready /\ \E token \in CalendarCredentials, id \in 1..3 : delete_user(token, id)

SpecErrors == InitErrors /\ [][NextErrors]_vars

----------------------------------------------------------------------------
(* A request that reads a row and later inserts a reference to it, served
   while another request deletes the row: src/app/main.py 553-590,
   1190-1210, 1284-1317 *)

\* The references are declared as ForeignKey columns (models.py 71, 99, 100).
\* Whether the engine checks them at an INSERT is settled where the engine is
\* made: foreign_keys, an input of every commit, is that setting.  A checked
\* INSERT of a dangling reference raises IntegrityError, no handler catches
\* it, and the request ends with 500 and nothing written.
IntegrityError(op, r) ==
    /\ resp' = Response(op, 500, r.tok, <<>>, Out("Internal Server Error", Null))
    /\ UNCHANGED <<authVars, inviteVars, dataVars>>
    /\ Finish(r)

\* Lines 1193-1196: the guard and the query of create_client_visit_log.
create_client_visit_log_begin(token, client_id) ==
    LET o == create_client_visit_log_outcome(token, client_id) IN
    /\ CanAccept
    /\ IF o.status # 200
       THEN Fail("create_client_visit_log", o.status, token, <<client_id>>, o.detail)
       ELSE /\ Accept([op |-> "create_client_visit_log", tok |-> token,
                       client_id |-> client_id,
                       checked_in_by |-> get_current_user(token, users, now).id])
            /\ UNCHANGED <<authVars, inviteVars, dataVars, resp>>

\* Lines 1198-1208: the INSERT and the commit.
create_client_visit_log_commit(r, foreign_keys) ==
    /\ r.op = "create_client_visit_log"
    /\ nextLog <= MaxLogs
    /\ IF foreign_keys /\ ~ClientExists(r.client_id)
       THEN IntegrityError("create_client_visit_log", r)
       ELSE /\ visit_logs' = visit_logs \cup
                    {NewVisitLog(nextLog, r.client_id, r.checked_in_by, now)}
            /\ nextLog' = nextLog + 1
            /\ resp' = Response("create_client_visit_log", 200, r.tok, <<r.client_id>>,
                                Out("created", nextLog))
            /\ UNCHANGED <<authVars, inviteVars, settingVars, clients, nextClient,
                           routeVars, schedVars>>
            /\ Finish(r)

\* Lines 582-590 with the engine's check of route_id and user_id.  Users
\* are never deleted (delete_user clears is_active), so only the route can
\* be missing.
assign_route_insert(r, foreign_keys) ==
    /\ r.op = "assign_route"
    /\ IF foreign_keys /\ ~RouteExists(r.route_id)
       THEN IntegrityError("assign_route", r)
       ELSE /\ AssignFinish(r.tok, r.route_id, r.user_id, r.date_string, r.date)
            /\ Finish(r)

\* Lines 1287-1289: the guard and the query of update_route.  The session
\* holds the row it read.
update_route_begin(token, route_id, name, client_ids) ==
    LET current_user == get_current_user(token, users, now) IN
    /\ CanAccept
    /\ IF current_user.status # 200
       THEN Fail("update_route", current_user.status, token, <<route_id, client_ids>>,
                 "rejected")
       ELSE IF ~RouteExists(route_id)
       THEN Fail("update_route", 404, token, <<route_id, client_ids>>, "Route not found")
       ELSE /\ Accept([op |-> "update_route", tok |-> token, route_id |-> route_id,
                       name |-> name, client_ids |-> client_ids,
                       read |-> CHOOSE x \in routes : x.id = route_id])
            /\ UNCHANGED <<authVars, inviteVars, dataVars, resp>>

\* Lines 1291-1304.  The first statement sent is the UPDATE of the route, and
\* only if a field differs from the row that was read; an UPDATE that matches
\* no row raises StaleDataError (500).  Then the DELETE of the route's rows,
\* the query of each client, the INSERTs and the commit.
update_route_commit(r, foreign_keys) ==
    /\ r.op = "update_route"
    /\ IF ~RouteExists(r.route_id) /\ r.name # r.read.name
       THEN IntegrityError("update_route", r)
       ELSE IF /\ foreign_keys
               /\ ~RouteExists(r.route_id)
               /\ MembershipRows(r.route_id, r.client_ids) # {}
       THEN IntegrityError("update_route", r)
       ELSE /\ routes' = {IF x.id = r.route_id /\ r.name # r.read.name
                           THEN [x EXCEPT !.name = r.name] ELSE x : x \in routes}
            /\ route_clients' = Without(route_clients, RowsOfRoute(r.route_id))
                                (+) SetToBag(MembershipRows(r.route_id, r.client_ids))
            /\ resp' = Response("update_route", 200, r.tok,
                                <<r.route_id, r.client_ids, r.name>>,
                                Out("updated", r.route_id))
            /\ UNCHANGED <<authVars, inviteVars, settingVars, clientVars, nextRoute,
                           templates, nextTemplate, schedVars>>
            /\ Finish(r)

IntegrityLists == {<<>>, <<1>>}

InitIntegrity ==
    /\ users = <<SeedAdmin, NewUser("a@x", "pw", "a", "member")>>
    /\ tokens = {AdminToken, MemberToken}
    /\ now = 0
    /\ invites = {}
    /\ nextInvite = 1
    /\ registered = {}
    /\ clients = {NewClient(1, "depot", Null)}
    /\ nextClient = 2
    /\ visit_logs = {}
    /\ nextLog = 1
    /\ settings = defaults
    /\ routes = {[id |-> 1, name |-> "north"]}
    /\ nextRoute = 2
    /\ route_clients = SetToBag(MembershipRows(1, <<1>>))
    /\ templates = {}
    /\ nextTemplate = 1
    /\ assignments = EmptyBag
    /\ reqs = EmptyBag
    /\ resp = NoResponse

(* Requests served concurrently; the writes of one request are one step *)
NextIntegrity ==
    \/ Deliver
    \/ Ready /\ \E client_id \in 1..MaxClients : delete_client(AdminToken, client_id)
    \/ Ready /\ \E client_ids \in IntegrityLists : create_route(AdminToken, "south", client_ids)
    \/ Ready /\ \E route_id \in 1..MaxRoutes : delete_route(AdminToken, route_id)
    \/ Ready /\ \E route_id \in 1..MaxRoutes, name \in RouteNames, client_ids \in IntegrityLists :
                    update_route_begin(MemberToken, route_id, name, client_ids)
    \/ Ready /\ \E r \in InFlight, foreign_keys \in BOOLEAN :
                    update_route_commit(r, foreign_keys)
    \/ Ready /\ create_client_visit_log_begin(MemberToken, 1)
    \/ Ready /\ \E r \in InFlight, foreign_keys \in BOOLEAN :
                    create_client_visit_log_commit(r, foreign_keys)
    \/ Ready /\ assign_route_begin(AdminToken, 1, 2, "2026-01-05")
    \/ Ready /\ \E r \in InFlight, foreign_keys \in BOOLEAN :
                    assign_route_insert(r, foreign_keys)

SpecIntegrity == InitIntegrity /\ [][NextIntegrity]_vars

----------------------------------------------------------------------------
(* Accounts, with callers of every kind: nobody, a member, an admin *)

RoleCallers == {NoCredentials, AdminToken, MemberToken}

InitRoles ==
    /\ users = <<SeedAdmin>>
    /\ tokens = {AdminToken, MemberToken}
    /\ now = 0
    /\ invites = {[id |-> 1, code |-> 1, created_by |-> 1, used_by |-> Null, expires_at |-> 1]}
    /\ nextInvite = 2
    /\ registered = {}
    /\ NoData
    /\ reqs = EmptyBag
    /\ resp = NoResponse

NextRoles ==
    \/ Deliver
    \/ Ready /\ \E email \in Emails, code \in {NoCode, 1} : register(email, code)
    \/ Ready /\ \E password \in Passwords : login("a@x", password)
    \/ Ready /\ \E token \in RoleCallers : get_me(token)
    \/ Ready /\ \E token \in RoleCallers, email \in Emails, role \in Roles :
                    create_user(token, email, role)
    \/ Ready /\ \E token \in RoleCallers, id \in UserIds, body \in UserUpdates :
                    update_user(token, id, body.name, body.role, body.is_active)
    \/ Ready /\ \E token \in RoleCallers, id \in UserIds : delete_user(token, id)
    \/ Ready /\ \E token \in {NoCredentials, MemberToken} : create_client(token, "depot", Null)
    \/ Ready /\ create_client_visit_log(MemberToken, 1)

SpecRoles == InitRoles /\ [][NextRoles]_vars

----------------------------------------------------------------------------
(* The admin-only endpoints, with logins and role changes between them *)

SettingKeys == {"map_style", "theme"}
AdminDateLists == {<<"2026-01-05">>, <<"2026-01-05", "2026-01-06">>}
AdminAssignees == {1, MaxAccounts + 1}      \* the seeded user, no such user
Callers == {NoCredentials} \cup tokens

InitAdmin ==
    /\ users = <<SeedAdmin>>
    /\ tokens = {AdminToken}
    /\ now = 0
    /\ invites = {}
    /\ nextInvite = 1
    /\ registered = {}
    /\ clients = {NewClient(1, "shop", NoChange)}
    /\ nextClient = 2
    /\ visit_logs = {NewVisitLog(1, 1, 1, 0)}
    /\ nextLog = 2
    /\ settings = defaults
    /\ routes = {[id |-> 1, name |-> "north"]}
    /\ nextRoute = 2
    /\ route_clients = SetToBag({[route_id |-> 1, client_id |-> 1, position |-> 0]})
    /\ templates = {}
    /\ nextTemplate = 1
    /\ assignments = EmptyBag
    /\ reqs = EmptyBag
    /\ resp = NoResponse

NextAdmin ==
    \/ Deliver
    \/ Ready /\ \E email \in {"a@x", AdminEmail}, password \in Passwords : login(email, password)
    \/ Ready /\ \E token \in Callers : list_users(token)
    \/ Ready /\ \E token \in Callers, role \in Roles : create_user(token, "a@x", role)
    \/ Ready /\ \E token \in Callers, id \in UserIds, body \in UserUpdates :
                    update_user(token, id, body.name, body.role, body.is_active)
    \/ Ready /\ \E token \in Callers, id \in UserIds : delete_user(token, id)
    \/ Ready /\ \E token \in Callers, d \in ExpiresInDays : create_invite_code(token, d)
    \/ Ready /\ \E token \in Callers : list_invite_codes(token)
    \/ Ready /\ \E token \in Callers, id \in 1..MaxInvites : delete_invite_code(token, id)
    \/ Ready /\ \E token \in Callers, user_id \in AdminAssignees :
                    assign_route(token, 1, user_id, "2026-01-05")
    \/ Ready /\ \E token \in Callers, user_id \in AdminAssignees, dates \in AdminDateLists,
                   autoflush \in BOOLEAN :
                    batch_assign_routes(token, 1, user_id, dates, autoflush)
    \/ Ready /\ \E token \in Callers, row \in BagToSet(assignments) :
                    delete_assignment(token, row)
    \/ Ready /\ \E token \in Callers : delete_client(token, 1)
    \/ Ready /\ \E token \in Callers : delete_location(token, 1)
    \/ Ready /\ \E token \in Callers : delete_route(token, 1)
    \/ Ready /\ \E token \in Callers : delete_visit_log(token, 1)
    \/ Ready /\ \E token \in Callers, key \in SettingKeys : update_setting(token, key, "dark")

SpecAdmin == InitAdmin /\ [][NextAdmin]_vars

----------------------------------------------------------------------------
(* Registration: C1, C2, C3 *)

\* C1: under any interleaving of concurrent register requests presenting the
\* same valid invite code, at most one succeeds: no invite code is consumed by
\* more than one registration, and at most one user is created per code.
C1_OneRegistrationPerCode ==
    \A r1, r2 \in registered : r1.code = r2.code => r1.user = r2.user

\* A register request ended in this step.
RegisterEnded == Ready /\ resp'.op = "register"

CodeIsValid(code) ==
    \E i \in invites : i.code = code /\ i.used_by = Null /\ i.expires_at > now

RegisterOutcome ==
    RegisterEnded =>
        /\ resp'.status \in {200, 400}
        /\ resp'.status = 200 <=>
               /\ ~\E u \in DOMAIN users : users[u].email = resp'.arg[1]
               /\ CodeIsValid(resp'.arg[2])

\* C2: register succeeds iff the code exists, is unused and expires strictly
\* later than now (and the email is free), and fails with 400 otherwise; served
\* one at a time, two registers with the same code succeed exactly once.
C2_RegisterIffCodeValid ==
    /\ [](\A r1, r2 \in registered : r1.code = r2.code => r1 = r2)
    /\ [][RegisterOutcome]_vars

\* A second register with a code that an earlier register consumed got 400.
C2_Witness ==
    /\ resp.op = "register"
    /\ resp.status = 400
    /\ resp.out.detail = "Invalid or expired invite code"
    /\ \E r \in registered : r.code = resp.arg[2]

UserOfCodeExists ==
    /\ \A r \in registered :
           /\ r.user \in DOMAIN users
           /\ \A i \in invites : i.id = r.code => i.used_by # Null
    /\ \A i \in invites : i.used_by # Null => i.used_by \in DOMAIN users

UserAndCodeTogether ==
    /\ Len(users') # Len(users) =>
           /\ Len(users') = Len(users) + 1
           /\ \E i \in invites' : i.used_by = Len(users')
    /\ \A i \in invites, j \in invites' :
           (i.id = j.id /\ i.used_by # j.used_by) =>
               /\ j.used_by = Len(users')
               /\ Len(users') = Len(users) + 1
    /\ (RegisterEnded /\ resp'.status # 200) => (users' = users /\ invites' = invites)

\* C3: registration is atomic: a register request has either created its user
\* and set the presented code's used_by to that user's id, or done neither; no
\* user created by register exists with its code unused, and no code is marked
\* used by a user id that does not exist.
C3_RegisterAtomic == []UserOfCodeExists /\ [][UserAndCodeTogether]_vars

\* A register returned 200 and another one was rolled back with a 500.
C3_Witness ==
    /\ registered # {}
    /\ resp.op = "register"
    /\ resp.status = 500

----------------------------------------------------------------------------
(* The guards: C4 *)

\* The endpoints of Spec that depend on get_current_user, directly or through
\* get_current_admin.
GuardedOps == {"get_me", "create_user", "update_user", "delete_user"}

\* The token decodes, is not expired and names a user who is active now.
TokenOfActiveUser(token) ==
    /\ token.kind = "jwt"
    /\ token.exp >= now
    /\ token.has_sub
    /\ \E u \in DOMAIN users : token.sub = str(u) /\ users[u].is_active

GuardRejects ==
    (Ready /\ resp'.op \in GuardedOps) =>
        (resp'.status = 401 <=> ~TokenOfActiveUser(resp'.tok))

\* C4: the authenticated guard answers 401 to every request with no token, an
\* undecodable or expired token, a token with no integer subject, or a token
\* whose subject is not an active user now; so a token issued to a user is
\* rejected from the user's deactivation until the user is reactivated.
C4_GuardRejectsUnlessActiveUser == [][GuardRejects]_vars

\* A token issued earlier, not expired, of a user deactivated since, got 401.
C4_Witness ==
    /\ resp.op = "get_me"
    /\ resp.status = 401
    /\ resp.tok \in tokens
    /\ resp.tok.exp >= now
    /\ \E u \in DOMAIN users : resp.tok.sub = str(u) /\ ~users[u].is_active

----------------------------------------------------------------------------
(* Admin-only endpoints: C5 *)

AdminOps ==
    {"list_users", "create_user", "update_user", "delete_user", "create_invite_code",
     "list_invite_codes", "delete_invite_code", "assign_route", "batch_assign_routes",
     "delete_assignment", "delete_client", "delete_location", "delete_route",
     "delete_visit_log", "update_setting"}

\* The token decodes, is not expired and names a user who is an active admin now.
TokenOfActiveAdmin(token) ==
    /\ token.kind = "jwt"
    /\ token.exp >= now
    /\ token.has_sub
    /\ \E u \in DOMAIN users :
           token.sub = str(u) /\ users[u].is_active /\ users[u].role = "admin"

Tables ==
    <<users, invites, clients, visit_logs, routes, route_clients, templates, assignments,
      settings>>

AdminOnly ==
    (Ready /\ resp'.op \in AdminOps) =>
        /\ ~TokenOfActiveUser(resp'.tok) => resp'.status = 401 /\ Tables' = Tables
        /\ TokenOfActiveUser(resp'.tok) /\ ~TokenOfActiveAdmin(resp'.tok)
               => resp'.status = 403 /\ Tables' = Tables
        /\ TokenOfActiveAdmin(resp'.tok) => resp'.status \notin {401, 403}

(* C5: a request to an admin-only endpoint is answered 401 and changes no
   table unless its token names an active user now, is answered 403 and
   changes no table when that user is not an admin now, and passes the guard
   otherwise; so a token issued to an admin stops authorizing these endpoints
   when the user is demoted. *)
C5_AdminOnly == [][AdminOnly]_vars

\* the seeded admin, demoted since the token was issued, got 403
C5_Witness ==
    /\ resp.op \in AdminOps
    /\ resp.status = 403
    /\ resp.tok = AdminToken
    /\ users[1].role = "member"
    /\ users[1].is_active

----------------------------------------------------------------------------
(* Route assignments: C6, C7, C8 *)

\* C6: in every reachable state, also one reached by concurrent assign_route
\* and batch_assign_routes requests, no two rows of route_assignments have the
\* same (route_id, user_id, assigned_date).
C6_NoDuplicateAssignment ==
    /\ \A row \in BagToSet(assignments) : assignments[row] = 1
    /\ \A r1, r2 \in BagToSet(assignments) :
           SameTriple(r1, r2.route_id, r2.user_id, r2.assigned_date) => r1 = r2

TripleCount(bag, route_id, user_id, date) ==
    BagCardinality([row \in {x \in BagToSet(bag) : SameTriple(x, route_id, user_id, date)}
                    |-> bag[row]])

\* An admin's assign_route request ended in this step.
AssignEnded ==
    /\ Ready
    /\ resp'.op = "assign_route"
    /\ resp'.status \notin {401, 403}

AssignOutcome ==
    AssignEnded =>
        LET route_id == resp'.arg[1]
            user_id == resp'.arg[2]
            parsed == strptime(resp'.arg[3])
            known == RouteExists(route_id) /\ ActiveUser(user_id)
        IN  /\ ~known => resp'.status = 404 /\ assignments' = assignments
            /\ known /\ parsed.ok /\ TripleCount(assignments, route_id, user_id, parsed.date) > 0
                   => resp'.status = 400 /\ assignments' = assignments
            /\ known /\ parsed.ok /\ TripleCount(assignments, route_id, user_id, parsed.date) = 0
                   => /\ resp'.status = 200
                      /\ assignments' = assignments (+)
                             SetToBag({[route_id |-> route_id, user_id |-> user_id,
                                        assigned_date |-> parsed.date,
                                        status |-> "pending"]})

(* C7: assign_route answers 404 and adds no row when the route does not exist
   or the user does not exist or is inactive; for an existing route and an
   active user it answers 400 and adds no row when a row with the same
   (route, user, date) exists, and otherwise adds exactly one pending row. *)
C7_AssignOutcome == [][AssignOutcome]_vars

\* each kind of answer has been given while the table already held a row
C7_Witness ==
    /\ resp.op = "assign_route"
    /\ resp.status = 400
    /\ RouteExists(resp.arg[1]) /\ ActiveUser(resp.arg[2])
    /\ TripleCount(assignments, resp.arg[1], resp.arg[2], strptime(resp.arg[3]).date) = 1
    /\ BagCardinality(assignments) >= 2

\* An admin's batch for an existing route, an active user and valid dates
\* ended in this step.
BatchEnded ==
    /\ Ready
    /\ resp'.op = "batch_assign_routes"
    /\ resp'.status \notin {401, 403}
    /\ RouteExists(resp'.arg[1])
    /\ ActiveUser(resp'.arg[2])
    /\ \A i \in DOMAIN resp'.arg[3] : strptime(resp'.arg[3][i]).ok

BatchOutcome ==
    BatchEnded =>
        LET route_id == resp'.arg[1]
            user_id == resp'.arg[2]
            dates == resp'.arg[3]
            day(i) == strptime(dates[i]).date
            times(i) == Cardinality({j \in DOMAIN dates : day(j) = day(i)})
            before(i) == TripleCount(assignments, route_id, user_id, day(i))
            after(i) == TripleCount(assignments', route_id, user_id, day(i))
            new == assignments' (-) assignments
        IN  /\ resp'.status = 200
            /\ resp'.out.created + resp'.out.skipped = Len(dates)
            /\ BagCardinality(assignments') = BagCardinality(assignments) + resp'.out.created
            /\ assignments \sqsubseteq assignments'
            /\ \A row \in BagToSet(new) :
                   /\ row.status = "pending"
                   /\ \E i \in DOMAIN dates : SameTriple(row, route_id, user_id, day(i))
            /\ \A i \in DOMAIN dates :
                   /\ before(i) > 0 => after(i) = before(i)
                   /\ before(i) = 0 => after(i) >= 1 /\ after(i) <= times(i)

(* C8: batch_assign_routes for an existing route, an active user and valid
   dates answers 200 whatever is already assigned: the rows it adds are
   pending rows of the route and the user for dates of the list, a date that
   had a row gets none, a date that had none gets one (at most one for each
   time the list gives it), the rows that were there stay, created + skipped
   is the number of dates given and created is the number of rows added. *)
C8_BatchOutcome == [][BatchOutcome]_vars

\* three different dates, one of them assigned before: created 2, skipped 1
C8_Witness ==
    /\ resp.op = "batch_assign_routes"
    /\ resp.status = 200
    /\ Len(resp.arg[3]) = 3
    /\ \A i, j \in 1..3 : i # j => strptime(resp.arg[3][i]).date # strptime(resp.arg[3][j]).date
    /\ resp.out.created = 2
    /\ resp.out.skipped = 1
    /\ BagCardinality(assignments) = 3

----------------------------------------------------------------------------
(* Route membership: C9, C10 *)

(* C9: in every reachable state the positions of each route's rows of
   route_clients are pairwise distinct and are exactly 0 .. n-1, n being the
   number of the route's rows. *)
PositionsOf(route_id) == {rc.position : rc \in RowsOfRoute(route_id)}
RowCount(route_id) ==
    BagCardinality([rc \in RowsOfRoute(route_id) |-> route_clients[rc]])

C9_PositionsDense ==
    \A r \in routes : /\ \A rc \in RowsOfRoute(r.id) : route_clients[rc] = 1
                      /\ Cardinality(PositionsOf(r.id)) = RowCount(r.id)
                      /\ PositionsOf(r.id) = 0..(RowCount(r.id) - 1)

(* C10: create_route and update_route, given a list of ids of existing clients,
   leave the route with exactly the rows (ids[i], position i), one each, i
   counted from 0; no other row of the route survives an update, and the rows
   of the other routes are as before. *)
MembershipEnded ==
    /\ Ready
    /\ resp'.op \in {"create_route", "update_route"}
    /\ resp'.status = 200
    /\ \A i \in DOMAIN resp'.arg[2] : ClientExists(resp'.arg[2][i])

MembershipReplaced ==
    MembershipEnded =>
        LET route_id == resp'.arg[1]
            ids == resp'.arg[2]
            mine == {rc \in BagToSet(route_clients') : rc.route_id = route_id}
            others == {rc \in BagToSet(route_clients) : rc.route_id # route_id}
        IN  /\ mine = {[route_id |-> route_id, client_id |-> ids[i], position |-> i - 1] :
                          i \in DOMAIN ids}
            /\ \A rc \in mine : route_clients'[rc] = 1
            /\ others = {rc \in BagToSet(route_clients') : rc.route_id # route_id}
            /\ \A rc \in others : route_clients'[rc] = route_clients[rc]

C10_MembershipReplaced == [][MembershipReplaced]_vars

\* an update has replaced a non-empty membership by a different non-empty one
C10_Witness ==
    /\ resp.op = "update_route"
    /\ resp.status = 200
    /\ Len(resp.arg[2]) = 2
    /\ resp.arg[2][1] # resp.arg[2][2]
    /\ \A i \in 1..2 : ClientExists(resp.arg[2][i])
    /\ RowsOfRoute(resp.arg[1]) =
           {[route_id |-> resp.arg[1], client_id |-> resp.arg[2][i], position |-> i - 1] :
               i \in 1..2}
    /\ \E other \in routes : other.id # resp.arg[1] /\ RowsOfRoute(other.id) # {}

(* C11: create_route and update_route (of an existing route) by an
   authenticated caller answer 200 whatever ids the list holds: an id of no
   client gets no row, and every id of a client gets its row at its index. *)
MembershipRequested ==
    /\ Ready
    /\ resp'.op \in {"create_route", "update_route"}
    /\ TokenOfActiveUser(resp'.tok)
    /\ resp'.op = "update_route" => RouteExists(resp'.arg[1])

UnknownIdsSkipped ==
    MembershipRequested =>
        /\ resp'.status = 200
        /\ LET ids == resp'.arg[2]
               mine == {rc \in BagToSet(route_clients') : rc.route_id = resp'.out.id}
           IN  /\ \A rc \in mine : ClientExists(rc.client_id)
               /\ \A i \in DOMAIN ids :
                      ClientExists(ids[i]) <=>
                          [route_id |-> resp'.out.id, client_id |-> ids[i],
                           position |-> i - 1] \in mine

C11_UnknownIdsSkipped == [][UnknownIdsSkipped]_vars

\* a list naming a client and an id of no client was accepted
C11_Witness ==
    /\ resp.op \in {"create_route", "update_route"}
    /\ resp.status = 200
    /\ \E i, j \in DOMAIN resp.arg[2] :
           /\ ~ClientExists(resp.arg[2][i])
           /\ ClientExists(resp.arg[2][j])
           /\ \E rc \in RowsOfRoute(resp.arg[1]) : rc.client_id = resp.arg[2][j]

----------------------------------------------------------------------------
(* Deleting clients and routes: C12, C13 *)

ClientDeleted ==
    /\ Ready
    /\ resp'.op \in {"delete_client", "delete_location"}
    /\ resp'.status = 200

ClientCascade ==
    ClientDeleted =>
        LET id == resp'.arg[1]
            kept == {rc \in BagToSet(route_clients) : rc.client_id # id}
        IN  /\ \E c \in clients : c.id = id
            /\ clients' = {c \in clients : c.id # id}
            /\ visit_logs' = {l \in visit_logs : l.client_id # id}
            /\ BagToSet(route_clients') = kept
            /\ \A rc \in kept : route_clients'[rc] = route_clients[rc]
            /\ routes' = routes
            /\ UNCHANGED <<users, invites, templates, assignments, settings>>

(* C12: deleting a client, by either path, removes the client, its visit logs
   and the rows of route_clients that name it, and leaves the routes, the
   other clients, their visit logs and their rows of route_clients as they
   were. *)
C12_ClientCascade == [][ClientCascade]_vars

\* a client was deleted; a visit log is gone, a route has lost its first
\* client and kept another, and another client still has a log
C12_Witness ==
    /\ resp.op \in {"delete_client", "delete_location"}
    /\ resp.status = 200
    /\ visit_logs # {}
    /\ Cardinality(visit_logs) < nextLog - 1
    /\ \E rc \in BagToSet(route_clients) :
           /\ rc.position = 1
           /\ rc.client_id # resp.arg[1]
           /\ ClientExists(rc.client_id)
           /\ ~\E other \in RowsOfRoute(rc.route_id) : other.position = 0

----------------------------------------------------------------------------
(* The /api/locations aliases: C20 *)

\* Two handlers answer with the same status and the same rows returned, and
\* leave the same tables.
SameOutcome(a, b) ==
    /\ a.status = b.status
    /\ a.body = b.body
    /\ a.clients = b.clients
    /\ a.nextClient = b.nextClient
    /\ a.visit_logs = b.visit_logs
    /\ a.nextLog = b.nextLog
    /\ a.route_clients = b.route_clients

(* C20: in every reachable state in which a request can be served, for every
   caller and arguments, each /api/locations handler answers with the same
   status and leaves the same tables as the /api/clients handler it stands
   for. *)
C20_AliasesAgree ==
    Ready => \A token \in RouteCredentials :
        /\ SameOutcome(get_locations_outcome(token), get_clients_outcome(token))
        /\ \A name \in ClientNames, notes \in ClientNotes :
               SameOutcome(create_location_outcome(token, name, notes),
                           create_client_outcome(token, name, notes))
        /\ \A id \in ClientIds :
               /\ SameOutcome(get_location_outcome(token, id), get_client_outcome(token, id))
               /\ \A name \in ClientNames, notes \in ClientNotes :
                      SameOutcome(update_location_outcome(token, id, name, notes),
                                  update_client_outcome(token, id, name, notes))
               /\ SameOutcome(delete_location_outcome(token, id),
                              delete_client_outcome(token, id))
               /\ SameOutcome(get_visit_logs_outcome(token, id),
                              get_client_visit_logs_outcome(token, id))
               /\ SameOutcome(create_visit_log_outcome(token, id),
                              create_client_visit_log_outcome(token, id))

\* a location was updated while a client with a visit log was on a route
C20_Witness ==
    /\ resp.op = "update_location"
    /\ resp.status = 200
    /\ \E c \in clients :
           /\ \E l \in visit_logs : l.client_id = c.id
           /\ \E rc \in BagToSet(route_clients) : rc.client_id = c.id

----------------------------------------------------------------------------
(* Deleting a route: C13 *)

RouteDeleted ==
    /\ Ready
    /\ resp'.op = "delete_route"
    /\ resp'.status = 200

RouteCascade ==
    RouteDeleted =>
        LET id == resp'.arg[1]
            keptClients == {rc \in BagToSet(route_clients) : rc.route_id # id}
            keptAssignments == {a \in BagToSet(assignments) : a.route_id # id}
        IN  /\ \E r \in routes : r.id = id
            /\ routes' = {r \in routes : r.id # id}
            /\ BagToSet(route_clients') = keptClients
            /\ \A rc \in keptClients : route_clients'[rc] = route_clients[rc]
            /\ BagToSet(assignments') = keptAssignments
            /\ \A a \in keptAssignments : assignments'[a] = assignments[a]
            /\ UNCHANGED <<clients, visit_logs, users>>

(* C13: deleting a route removes the route, its rows of route_clients and its
   rows of route_assignments, and leaves the clients, the visit logs, the
   users and the rows of the other routes as they were. *)
C13_RouteCascade == [][RouteCascade]_vars

\* a route was deleted; the other route still has its client and an
\* assignment, and the client and its visit log are still there
C13_Witness ==
    /\ resp.op = "delete_route"
    /\ resp.status = 200
    /\ \E r \in routes :
           /\ \E rc \in BagToSet(route_clients) : rc.route_id = r.id
           /\ \E a \in BagToSet(assignments) : a.route_id = r.id
    /\ clients # {}
    /\ visit_logs # {}

----------------------------------------------------------------------------
(* Service status: C14, C15 *)

ServiceStatuses == {"never", "green", "orange", "red"}

\* The status the rule gives for d whole days since the last visit.
StatusByRule(visited, d, green_days, orange_days) ==
    IF ~visited THEN "never"
    ELSE IF d <= green_days THEN "green"
    ELSE IF d <= orange_days THEN "orange"
    ELSE "red"

\* The worked cases for the thresholds 7 and 14.
StatusExamples ==
    [d \in {3, 7, 8, 10, 14, 20} |->
        CASE d \in {3, 7} -> "green"
          [] d \in {8, 10, 14} -> "orange"
          [] OTHER -> "red"]

(* C14: compute_service_status answers "never" without a last visit, and for
   a last visit d whole days ago "green" when d <= green_days, otherwise
   "orange" when d <= orange_days, otherwise "red"; with the thresholds 7 and
   14 the days 3, 7, 8, 10, 14, 20 give green, green, orange, orange, orange,
   red; the answer is always one of the four values. *)
C14_StatusRule ==
    resp.op = "compute_service_status" =>
        LET visited == resp.arg[1]
            d == resp.arg[2]
            green_days == resp.arg[3]
            orange_days == resp.arg[4]
        IN  /\ resp.out.detail = StatusByRule(visited, d, green_days, orange_days)
            /\ resp.out.detail \in ServiceStatuses
            /\ (visited /\ green_days = 7 /\ orange_days = 14 /\ d \in DOMAIN StatusExamples)
                   => resp.out.detail = StatusExamples[d]

\* the last visit was 14 days and 23 hours ago and the answer is "orange"
C14_Witness ==
    /\ resp.op = "compute_service_status"
    /\ resp.arg = <<TRUE, 14, 7, 14>>
    /\ resp.out.id = HoursPerDay - 1
    /\ resp.out.detail = "orange"

(* C15: whatever value of service_thresholds an admin has stored, the list of
   clients with their status is answered to an authenticated caller with
   status 200 and a status among the four values for every client. *)
C15_SucceedsForAnySetting ==
    (resp.op = "get_clients_with_status" /\ resp.status \notin {401, 403}) =>
        /\ resp.status = 200
        /\ \A row \in resp.out.rows : row.service_status \in ServiceStatuses

----------------------------------------------------------------------------
(* The schedule and the status of an assignment: C16, C17 *)

\* The rows of route_assignments dated from start to end that satisfy keep.
RowsInRange(start, end, keep(_)) ==
    LET chosen == {a \in BagToSet(assignments) :
                      /\ a.assigned_date >= strptime(start).date
                      /\ a.assigned_date <= strptime(end).date
                      /\ keep(a)}
    IN  [a \in chosen |-> assignments[a]]

ScheduleScoped ==
    (resp.op = "get_schedule" /\ resp.status = 200) =>
        LET caller == get_current_user(resp.tok, users, now).id
            start == resp.arg[1]
            end == resp.arg[2]
            user_id == resp.arg[3]
            OfCaller(a) == a.user_id = caller
            OfRequested(a) == a.user_id = user_id[1]
            OfAnyone(a) == TRUE
        IN  resp.out.rows =
                IF users[caller].role # "admin" THEN RowsInRange(start, end, OfCaller)
                ELSE IF user_id # <<>> THEN RowsInRange(start, end, OfRequested)
                ELSE RowsInRange(start, end, OfAnyone)

(* C16: the schedule answered to a caller who is not an admin holds exactly
   the caller's own assignments dated within the range, whatever user_id the
   request names; answered to an admin it holds all the assignments within
   the range, or only those of the user_id the request names when it names
   one. *)
C16_ScheduleScoped == ScheduleScoped

StatusRequested ==
    /\ Ready
    /\ resp'.op = "update_assignment_status"
    /\ get_current_user(resp'.tok, users, now).status = 200

StatusMoves ==
    StatusRequested =>
        LET caller == get_current_user(resp'.tok, users, now).id
            row == resp'.arg[1]
            status == resp'.arg[2]
            found == BagIn(row, assignments)
            allowed == row.user_id = caller \/ users[caller].role = "admin"
            known == status \in AssignmentStatuses
        IN  /\ resp'.status = IF ~found THEN 404
                              ELSE IF ~allowed THEN 403
                              ELSE IF ~known THEN 400
                              ELSE 200
            /\ resp'.status = 200 =>
                   assignments' = (assignments (-) SetToBag({row}))
                                  (+) SetToBag({[row EXCEPT !.status = status]})
            /\ resp'.status # 200 => assignments' = assignments

StatusesKnown == \A a \in BagToSet(assignments) : a.status \in AssignmentStatuses

(* C17: the owner of an assignment and every admin can move its status from
   any value to any of pending, in_progress and completed; a missing
   assignment is answered with 404, a caller who is neither the owner nor an
   admin with 403, an unknown status with 400, and these leave the
   assignments as they were; the status of every assignment is always one of
   the three values. *)
C17_StatusMoves == []StatusesKnown /\ [][StatusMoves]_vars

\* the member has moved an own assignment back from completed to pending
C17_Witness ==
    /\ resp.op = "update_assignment_status"
    /\ resp.status = 200
    /\ resp.tok = MemberToken
    /\ resp.arg[1].status = "completed"
    /\ resp.arg[2] = "pending"
    /\ BagIn([resp.arg[1] EXCEPT !.status = "pending"], assignments)

----------------------------------------------------------------------------
(* What a PUT writes: C18 *)

Updated(ops) ==
    /\ Ready
    /\ resp'.op \in ops
    /\ resp'.status = 200

\* update_client and update_location: the row is the body's, null notes included
ClientOverwritten ==
    Updated({"update_client", "update_location"}) =>
        LET id == resp'.arg[1] IN
        /\ {c \in clients' : c.id = id} = {NewClient(id, resp'.arg[2], resp'.arg[3])}
        /\ {c \in clients' : c.id # id} = {c \in clients : c.id # id}

\* update_route: the name is the body's and the rows are those of the body's
\* list, none when the list is empty
RouteOverwritten ==
    Updated({"update_route"}) =>
        LET id == resp'.arg[1] IN
        /\ {r \in routes' : r.id = id} = {[id |-> id, name |-> resp'.arg[3]]}
        /\ {rc \in BagToSet(route_clients') : rc.route_id = id}
               = MembershipRows(id, resp'.arg[2])

\* update_route_template: the name is the body's and the stored list reads
\* back as the body's list
TemplateOverwritten ==
    Updated({"update_route_template"}) =>
        LET id == resp'.arg[1]
            rows == {t \in templates' : t.id = id}
        IN  /\ Cardinality(rows) = 1
            /\ \A t \in rows : /\ t.name = resp'.arg[3]
                               /\ json_loads(t.client_ids_json) = resp'.arg[2]

\* update_user as an overwrite: every field is the body's; a field the body
\* leaves out becomes null, which no stored is_active is
UserOverwritten ==
    Updated({"update_user"}) =>
        LET id == resp'.arg[1] IN
        /\ users'[id].name = resp'.arg[2]
        /\ users'[id].role = resp'.arg[3]
        /\ resp'.arg[4] # NoChange
        /\ users'[id].is_active = (resp'.arg[4] = "true")

\* update_user as a patch: a field is the body's when the body carries it and
\* is kept when the body leaves it out
UserPatched ==
    Updated({"update_user"}) =>
        LET id == resp'.arg[1] IN
        /\ users'[id].name = IF resp'.arg[2] # NoChange THEN resp'.arg[2] ELSE users[id].name
        /\ users'[id].role = IF resp'.arg[3] # NoChange THEN resp'.arg[3] ELSE users[id].role
        /\ users'[id].is_active = IF resp'.arg[4] # NoChange THEN resp'.arg[4] = "true"
                                  ELSE users[id].is_active
        /\ users'[id].email = users[id].email
        /\ users'[id].password_hash = users[id].password_hash

(* C18 as stated: after a successful PUT on a client, a user, a route or a
   route template every updatable stored field is the value the body carries,
   a field the body leaves null or absent included. *)
C18_FullOverwrite ==
    [][ClientOverwritten /\ RouteOverwritten /\ TemplateOverwritten /\ UserOverwritten]_vars

(* C18 amended: after a successful PUT on a client, a route or a route
   template every updatable stored field is the value the body carries, a
   field the body leaves null or absent included; after a successful PUT on a
   user each of name, role and is_active is the body's value when the body
   carries one and keeps its stored value when the body leaves it out. *)
C18_OverwriteButUserPatch ==
    [][ClientOverwritten /\ RouteOverwritten /\ TemplateOverwritten /\ UserPatched]_vars

\* the member was renamed by a body that carries only a name, and is still an
\* active member
C18_Witness ==
    /\ resp.op = "update_user"
    /\ resp.status = 200
    /\ resp.arg = <<2, "renamed", NoChange, NoChange>>
    /\ users[2].name = "renamed"
    /\ users[2].role = "member"
    /\ users[2].is_active

----------------------------------------------------------------------------
(* Deactivated, never deleted: C19 *)

UserDeactivated ==
    /\ Ready
    /\ resp'.op = "delete_user"
    /\ resp'.status = 200

\* delete_user writes is_active of the one user and nothing else
OnlyDeactivates ==
    UserDeactivated =>
        LET id == resp'.arg[1] IN
        /\ id \in DOMAIN users
        /\ users' = [users EXCEPT ![id].is_active = FALSE]
        /\ UNCHANGED <<visit_logs, assignments, invites, registered, templates>>

\* no step takes a row out of users or gives its id to another account
UserRowsStay ==
    /\ Len(users') >= Len(users)
    /\ \A id \in DOMAIN users : users'[id].email = users[id].email

(* C19: a successful DELETE of a user sets is_active of that user to false
   and changes nothing else: the row stays with its email and role, and the
   visit logs, assignments, invite codes and templates are as before; no
   operation ever removes a row of users. *)
C19_NeverRemoved == [][OnlyDeactivates /\ UserRowsStay]_vars

\* the seeded admin was deactivated by a second admin; the row is still
\* there with its role, and so are its visit log and its assignment
C19_Witness ==
    /\ resp.op = "delete_user"
    /\ resp.status = 200
    /\ resp.arg[1] = 1
    /\ ~users[1].is_active
    /\ users[1].role = "admin"
    /\ users[1].email = AdminEmail
    /\ \E l \in visit_logs : l.checked_in_by = 1
    /\ \E a \in BagToSet(assignments) : a.user_id = 1

----------------------------------------------------------------------------
(* Visit logs: C21 *)

\* The request that has just ended deleted the log, or the client of the log.
DeletedBy(l) ==
    /\ resp'.status = 200
    /\ \/ resp'.op = "delete_visit_log" /\ resp'.arg[1] = l.id
       \/ resp'.op \in {"delete_client", "delete_location"} /\ resp'.arg[1] = l.client_id

LogsImmutable ==
    /\ \A l \in visit_logs : l \in visit_logs' \/ DeletedBy(l)
    /\ \A l \in visit_logs' \ visit_logs : \A old \in visit_logs : old.id # l.id
    /\ (/\ Ready
        /\ resp'.op \in {"create_client_visit_log", "create_visit_log"}
        /\ get_current_user(resp'.tok, users, now).status = 200
        /\ ~ClientExists(resp'.arg[1]))
           => resp'.status = 404 /\ visit_logs' = visit_logs

(* C21: a visit log that exists stays as it was written (client_id,
   checked_in_by, created_at) until delete_visit_log deletes it or its client
   is deleted; a row that appears is a new log, never a changed one; and
   create_client_visit_log for a client that does not exist is answered with
   404 and adds no log. *)
C21_LogsImmutable == [][LogsImmutable]_vars

\* a log was deleted a week after another log was written, and that other
\* log is still there as written, its client renamed in between
C21_Witness ==
    /\ resp.op = "delete_visit_log"
    /\ resp.status = 200
    /\ now = 1
    /\ \E l \in visit_logs :
           /\ l.created_at = 0
           /\ l.checked_in_by = 1
           /\ \E c \in clients : c.id = l.client_id /\ c.name # "shop" /\ c.id = 1

----------------------------------------------------------------------------
(* Routes saved as templates and made from them: C22 *)

\* The client ids of rows in ascending order of position: the id at place i
\* is that of the row with i - 1 rows before it.
IdsInOrder(rows) ==
    [i \in 1..Cardinality(rows) |->
        (CHOOSE rc \in rows : Cardinality({o \in rows : o.position < rc.position}) = i - 1)
            .client_id]

\* The ids of a list that name a client, in the order of the list.
Surviving(ids) == SelectSeq(ids, ClientExists)

\* save_route_as_template stores the ids of the route in position order
SavedInOrder ==
    (Ready /\ resp'.op = "save_route_as_template" /\ resp'.status = 200) =>
        \E t \in templates' \ templates :
            /\ t.id = resp'.out.id
            /\ json_loads(t.client_ids_json) = IdsInOrder(RowsOfRoute(resp'.arg[1]))

\* create_route_from_template succeeds for every template that exists, and
\* the new route has the surviving ids in the stored order
MadeInOrder ==
    (/\ Ready
     /\ resp'.op = "create_route_from_template"
     /\ get_current_user(resp'.tok, users, now).status = 200
     /\ \E t \in templates : t.id = resp'.arg[1]) =>
        LET t == CHOOSE x \in templates : x.id = resp'.arg[1]
            made == {rc \in BagToSet(route_clients') : rc.route_id = resp'.out.id}
        IN  /\ resp'.status = 200
            /\ \E r \in routes' \ routes : r.id = resp'.out.id
            /\ IdsInOrder(made) = Surviving(json_loads(t.client_ids_json))

\* saving a route and making a route from what was saved gives the ids of
\* the route again, in every state in which a request can be served
RoundTrip ==
    Ready => \A r \in routes :
        LET ids == IdsInOrder(RowsOfRoute(r.id))
            sorted == sorted_by_position(RowsOfRoute(r.id))
            saved == json_dumps([i \in 1..Len(sorted) |-> sorted[i].client_id])
        IN  IdsInOrder(MembershipRows(nextRoute, json_loads(saved))) = Surviving(ids)

(* C22: save_route_as_template stores the client ids of the route in
   ascending order of position; create_route_from_template makes a route
   whose client ids in order of position are the stored ids that still name a
   client, in the stored order, and succeeds also when some no longer do; so
   with no client deleted in between the new route has the sequence of the
   route that was saved. *)
C22_TemplateRoundTrip == []RoundTrip /\ [][SavedInOrder /\ MadeInOrder]_vars

\* a route was made from a template saved from a route with two clients at
\* positions 0 and 1, of which the first has been deleted since
C22_Witness ==
    /\ resp.op = "create_route_from_template"
    /\ resp.status = 200
    /\ \E t \in templates :
           /\ t.id = resp.arg[1]
           /\ json_loads(t.client_ids_json) = <<2, 1>>
           /\ t.name = "north Template"
    /\ ~ClientExists(2)
    /\ RowsOfRoute(resp.out.id) = {[route_id |-> resp.out.id, client_id |-> 1, position |-> 1]}

----------------------------------------------------------------------------
(* Requests that fail: C23 *)

ErrorStatuses == {400, 401, 403, 404, 500}

\* A request ends with an error status.
RequestFailed ==
    /\ Ready
    /\ resp'.op # "none"
    /\ resp'.status \in ErrorStatuses

ErrorsChangeNothing ==
    RequestFailed =>
        UNCHANGED <<users, invites, nextInvite, registered, clients, nextClient, visit_logs,
                    nextLog, routes, nextRoute, route_clients, templates, nextTemplate,
                    assignments, settings>>

(* C23: a request that is answered with 400, 401, 403, 404 or 500 leaves
   every table as it was: the assignments a batch added before a malformed
   date, the user a registration inserted before it failed, and whatever else
   the request had written are not there afterwards. *)
C23_ErrorsChangeNothing == [][ErrorsChangeNothing]_vars

\* a batch failed on its second date, malformed, after the first was added;
\* an earlier assignment is there, none for the first date of the batch
C23_Witness ==
    /\ resp.op = "batch_assign_routes"
    /\ resp.status = 500
    /\ resp.arg[3] = <<"2026-01-06", "soon">>
    /\ \E a \in BagToSet(assignments) : a.assigned_date = 5
    /\ \A a \in BagToSet(assignments) : a.assigned_date # 6

----------------------------------------------------------------------------
(* Whose template it is: C24 *)

TemplateWritten ==
    /\ Ready
    /\ resp'.op \in {"update_route_template", "delete_route_template"}
    /\ get_current_user(resp'.tok, users, now).status = 200
    /\ \E t \in templates : t.id = resp'.arg[1]

CreatorOrAdmin ==
    TemplateWritten =>
        LET caller == get_current_user(resp'.tok, users, now).id
            t == CHOOSE x \in templates : x.id = resp'.arg[1]
            allowed == t.created_by = caller \/ users[caller].role = "admin"
        IN  /\ ~allowed => resp'.status = 403 /\ templates' = templates
            /\ resp'.status = 200 => allowed
            /\ templates' # templates => resp'.status = 200

CreatorKept ==
    \A t \in templates : \A u \in templates' : u.id = t.id => u.created_by = t.created_by

(* C24: update_route_template and delete_route_template called by an
   authenticated user who is neither the creator of the template nor an admin
   are answered with 403 and leave the template as it was; they change a
   template only for its creator or an admin; and created_by of a template
   never changes. *)
C24_CreatorOrAdmin == [][CreatorOrAdmin /\ CreatorKept]_vars

\* the member was refused the deletion of a template the admin created
C24_Witness ==
    /\ resp.op = "delete_route_template"
    /\ resp.status = 403
    /\ resp.tok = MemberToken
    /\ \E t \in templates : t.id = resp.arg[1] /\ t.created_by = 1

----------------------------------------------------------------------------
(* Consumed invite codes: C25 *)

ConsumedStays ==
    \A i \in invites :
        i.used_by # Null => \E j \in invites' : j.id = i.id /\ j.used_by = i.used_by

(* C25: an invite code whose used_by is set keeps that used_by in every later
   state: no operation clears it, gives it another user, or deletes the code
   (delete_invite_code answers 400 for it). *)
C25_ConsumedStays == [][ConsumedStays]_vars


----------------------------------------------------------------------------
(* C26: references *)

\* Every row of route_clients names a route and a client that exist, every
\* visit log a client, every assignment a route and a user.
ReferencesExist ==
    /\ \A rc \in BagToSet(route_clients) : RouteExists(rc.route_id) /\ ClientExists(rc.client_id)
    /\ \A l \in visit_logs : ClientExists(l.client_id)
    /\ \A a \in BagToSet(assignments) : RouteExists(a.route_id) /\ a.user_id \in DOMAIN users

(* C26: in every reachable state, with requests served concurrently, every
   row of route_clients references an existing route and an existing client,
   every visit log an existing client, and every assignment an existing
   route and an existing user. *)
C26_ReferencesExist == ReferencesExist


----------------------------------------------------------------------------
(* Roles and active flags: C27 *)

\* The request carried a valid token of an account that is an active admin.
IsAdminActor(tok) ==
    \E i \in DOMAIN users :
        /\ tok.kind = "jwt"
        /\ tok.exp >= now
        /\ tok.sub = str(i)
        /\ users[i].role = "admin"
        /\ users[i].is_active

RoleOrFlagChanged ==
    \E i \in DOMAIN users :
        \/ i \notin DOMAIN users'
        \/ users'[i].role # users[i].role
        \/ users'[i].is_active # users[i].is_active

OnlyAdminsGrant ==
    /\ RoleOrFlagChanged =>
           /\ resp'.op \in {"update_user", "delete_user"}
           /\ IsAdminActor(resp'.tok)
    /\ \A i \in DOMAIN users' \ DOMAIN users :
           \/ resp'.op = "register" /\ users'[i].role = "member"
           \/ resp'.op = "create_user" /\ IsAdminActor(resp'.tok)

(* C27: a request that changes the role or the active flag of a user, or
   creates a user who is an admin, is an update_user, a delete_user or a
   create_user carrying the token of an active admin; the user that register
   creates is a member.  No request of a caller without credentials or of a
   member does any of it. *)
C27_OnlyAdminsGrant == [][OnlyAdminsGrant]_vars

\* a member who came in through register asked to be made an admin, was
\* refused, and is a member still
C27_Witness ==
    /\ resp.op = "update_user"
    /\ resp.status = 403
    /\ resp.tok = MemberToken
    /\ resp.arg[1] = 2
    /\ \E r \in registered : r.user = 2
    /\ users[2].role = "member"
    /\ users[2].is_active


----------------------------------------------------------------------------
(* An admin acting on their own account: C28 *)

\* The id of the account whose valid token the request carried, Null if none.
ActorOf(tok) ==
    LET current_user == get_current_user(tok, users, now) IN
    IF current_user.status = 200 THEN current_user.id ELSE Null

\* A user-management request of an admin that names the admin's own id ended.
ActedOnSelf ==
    /\ Ready
    /\ resp'.op \in {"update_user", "delete_user"}
    /\ ActorOf(resp'.tok) # Null
    /\ users[ActorOf(resp'.tok)].role = "admin"
    /\ resp'.arg[1] = ActorOf(resp'.tok)

StillActive == ActedOnSelf => users'[ActorOf(resp'.tok)].is_active

(* C28: after a delete_user or an update_user issued by an admin and naming
   that admin's own id, the admin's account is still active. *)
C28_StillActive == [][StillActive]_vars

\* delete_user alone: the admin who names their own id is refused with 400
\* and stays active
SelfDeleteRefused ==
    (ActedOnSelf /\ resp'.op = "delete_user") =>
        /\ resp'.status = 400
        /\ users' = users

============================================================================
